---- MODULE Spec2Model ----
(***************************************************************************)
(* A model of sol2seq: the extraction of a DiagramData accumulator from a  *)
(* solc AST (src/src/ast.rs), the helpers of src/src/utils.rs and the      *)
(* Mermaid renderer of src/src/diagram.rs, driven by                       *)
(* generate_diagram_from_file (src/src/lib.rs).                            *)
(*                                                                         *)
(* Strings are TLA+ strings: format! is \o, and the substring, prefix,     *)
(* lower-casing and ordering functions of Rust's str are computed          *)
(* character by character with SubSeq.  A serde_json::Value is a tagged    *)
(* record, so that a field of the wrong JSON type is a value of the model. *)
(***************************************************************************)
EXTENDS Integers, Sequences, FiniteSets, TLC

VARIABLES
    ast,            \* the parsed AST document handed to generate_sequence_diagram
    output_file,    \* Config.output_file: TRUE for Some(path), FALSE for None
    light_colors,   \* Config.light_colors of the call in progress
    pc,             \* position of the call in progress
    cursor,         \* index of the source unit the `sources` loop is at
    data,           \* the DiagramData accumulator of the call in progress
    diagram,        \* the Vec<String> built by generate_sequence_diagram
    ret,            \* what the latest finished call returned
    outFile,        \* the content of the output file, NoFile while never written
    typeNode,       \* argument of extract_type_name
    typeOut,        \* its result
    tpc,            \* "start" before the resolver has run, "done" after
    bodyStmts,      \* argument of process_function_body
    bodyOut,        \* its result
    bpc,            \* "start" before the walker has run, "done" after
    fnIn,           \* argument(s) of the helper function that is run on its own
    fnOut,          \* its result
    fpc             \* which helper, before it has run; "done" after

vars == <<ast, output_file, light_colors, pc, cursor, data, diagram, ret,
          outFile, typeNode, typeOut, tpc, bodyStmts, bodyOut, bpc,
          fnIn, fnOut, fpc>>

pipeVars == <<ast, output_file, light_colors, pc, cursor, data, diagram, ret,
              outFile>>
typeVars == <<typeNode, typeOut, tpc>>
bodyVars == <<bodyStmts, bodyOut, bpc>>
fnVars == <<fnIn, fnOut, fpc>>

-----------------------------------------------------------------------------
(* Bounds of the model.                                                    *)

\* longest declaration array of a flat input
MaxContracts == 2
\* most entries of the `sources` object of a multi-source input
MaxFiles == 2
\* deepest nesting of array / mapping / tuple type nodes
MaxTypeDepth == 3
\* most functions whose body lines are stored in contract_interactions
MaxInteractions == 2
\* longest list of contract relationships
MaxRelationships == 3
\* deepest nesting of loop / conditional statements
MaxBodyDepth == 2

-----------------------------------------------------------------------------
(* str                                                                     *)

Char(s, i) == SubSeq(s, i, i)

UpperChars == "ABCDEFGHIJKLMNOPQRSTUVWXYZ"
LowerChars == "abcdefghijklmnopqrstuvwxyz"

\* char::to_lowercase on the ASCII range, as a table from each upper-case
\* letter to its lower-case letter
LowerMap ==
    [c \in {Char(UpperChars, i) : i \in 1..Len(UpperChars)} |->
        Char(LowerChars, CHOOSE i \in 1..Len(UpperChars) : Char(UpperChars, i) = c)]

LowerChar(c) == IF c \in DOMAIN LowerMap THEN LowerMap[c] ELSE c

\* [String]::join
RECURSIVE join(_, _)
join(parts, sep) ==
    IF Len(parts) = 0 THEN ""
    ELSE IF Len(parts) = 1 THEN parts[1]
    ELSE LET half == Len(parts) \div 2
         IN  join(SubSeq(parts, 1, half), sep) \o sep
                 \o join(SubSeq(parts, half + 1, Len(parts)), sep)

\* str::to_lowercase
to_lowercase(s) ==
    IF s = "" THEN ""
    ELSE join([i \in 1..Len(s) |-> LowerChar(Char(s, i))], "")

starts_with(s, p) == Len(s) >= Len(p) /\ SubSeq(s, 1, Len(p)) = p

ends_with(s, p) == Len(s) >= Len(p) /\ SubSeq(s, Len(s) - Len(p) + 1, Len(s)) = p

contains(s, p) ==
    \E i \in 0..(Len(s) - Len(p)) : SubSeq(s, i + 1, i + Len(p)) = p

\* The characters of Solidity identifiers in byte order: Rust orders strings
\* by their bytes, so a character's position here orders it.
ByteOrder == "$0123456789ABCDEFGHIJKLMNOPQRSTUVWXYZ_abcdefghijklmnopqrstuvwxyz"

OrdMap ==
    [c \in {Char(ByteOrder, i) : i \in 1..Len(ByteOrder)} |->
        CHOOSE i \in 1..Len(ByteOrder) : Char(ByteOrder, i) = c]

Ord(c) == IF c \in DOMAIN OrdMap THEN OrdMap[c] ELSE 0

\* a < b for Rust's Ord on String (lexicographic on bytes)
StrLess(a, b) ==
    LET n == IF Len(a) < Len(b) THEN Len(a) ELSE Len(b)
        diff == {i \in 1..n : Char(a, i) # Char(b, i)}
    IN  IF diff = {} THEN Len(a) < Len(b)
        ELSE LET i == CHOOSE j \in diff : \A k \in diff : j <= k
             IN  Ord(Char(a, i)) < Ord(Char(b, i))

Digits == "0123456789"

\* format!("{}", n) of a u64
RECURSIVE NumStr(_)
NumStr(n) ==
    IF n < 10 THEN Char(Digits, n + 1)
    ELSE NumStr(n \div 10) \o Char(Digits, (n % 10) + 1)

-----------------------------------------------------------------------------
(* serde_json::Value                                                       *)

JNull == [t |-> "null"]
JStr(s) == [t |-> "str", s |-> s]
JNum(n) == [t |-> "num", n |-> n]
JBool(b) == [t |-> "bool", b |-> b]
JArr(a) == [t |-> "arr", a |-> a]
JObj(o) == [t |-> "obj", o |-> o]
EmptyObj == [t |-> "obj", o |-> <<>>]

IsObj(v) == v.t = "obj"
IsArr(v) == v.t = "arr"
IsStr(v) == v.t = "str"
IsU64(v) == v.t = "num" /\ v.n >= 0

\* Value::get(key).is_some()
Has(v, k) == IsObj(v) /\ k \in DOMAIN v.o

\* value[key]: Null when value is no object or has no such key
Get(v, k) == IF Has(v, k) THEN v.o[k] ELSE JNull

\* value.as_str().unwrap_or(d)
StrOr(v, d) == IF IsStr(v) THEN v.s ELSE d

\* value["nodeType"].as_str() == Some(s)
NodeTypeIs(v, s) == IsStr(Get(v, "nodeType")) /\ Get(v, "nodeType").s = s

\* value.get(key).and_then(|x| x.as_array()), as the list or <<>> when None
ArrOr(v) == IF IsArr(v) THEN v.a ELSE <<>>

-----------------------------------------------------------------------------
(* src/src/utils.rs                                                        *)

\* extract_type_name as it would be if only a string-encoded length made a
\* fixed-size array (C22 is tried against it)
RECURSIVE extract_type_name_string_length_only(_)
extract_type_name_string_length_only(type_node) ==
    IF ~IsObj(type_node) THEN "unknown"
    ELSE
    LET node_type == StrOr(Get(type_node, "nodeType"), "")
        name == StrOr(Get(type_node, "name"), "unknown")
    IN  CASE node_type = "ElementaryTypeName" -> name
          [] node_type = "UserDefinedTypeName" ->
                IF Has(type_node, "pathNode")
                   /\ IsStr(Get(Get(type_node, "pathNode"), "name"))
                THEN Get(Get(type_node, "pathNode"), "name").s
                ELSE name
          [] node_type = "ArrayTypeName" ->
                LET base_type == extract_type_name_string_length_only(Get(type_node, "baseType"))
                    len == Get(Get(type_node, "length"), "value")
                IN  IF Has(type_node, "length") /\ IsStr(len)
                    THEN base_type \o "[" \o len.s \o "]"
                    ELSE base_type \o "[]"
          [] node_type = "Mapping" ->
                "mapping(" \o extract_type_name_string_length_only(Get(type_node, "keyType"))
                    \o "=>" \o extract_type_name_string_length_only(Get(type_node, "valueType")) \o ")"
          [] node_type = "TupleType" ->
                LET components == Get(type_node, "components")
                IN  IF IsArr(components)
                    THEN "(" \o join([i \in 1..Len(components.a) |->
                                         extract_type_name_string_length_only(components.a[i])], ", ")
                             \o ")"
                    ELSE "tuple"
          [] node_type = "FunctionTypeName" -> "function"
          [] node_type = "AddressType" ->
                IF IsStr(Get(type_node, "stateMutability"))
                   /\ Get(type_node, "stateMutability").s = "payable"
                THEN "address payable"
                ELSE "address"
          [] OTHER ->
                IF IsStr(Get(Get(type_node, "typeDescriptions"), "typeString"))
                THEN Get(Get(type_node, "typeDescriptions"), "typeString").s
                ELSE "unknown"

RECURSIVE extract_type_name(_)
extract_type_name(type_node) ==
    IF ~IsObj(type_node) THEN "unknown"
    ELSE
    LET node_type == StrOr(Get(type_node, "nodeType"), "")
        name == StrOr(Get(type_node, "name"), "unknown")
    IN  CASE node_type = "ElementaryTypeName" -> name
          [] node_type = "UserDefinedTypeName" ->
                IF Has(type_node, "pathNode")
                   /\ IsStr(Get(Get(type_node, "pathNode"), "name"))
                THEN Get(Get(type_node, "pathNode"), "name").s
                ELSE name
          [] node_type = "ArrayTypeName" ->
                LET base_type == extract_type_name(Get(type_node, "baseType"))
                    len == Get(Get(type_node, "length"), "value")
                IN  IF Has(type_node, "length") /\ IsStr(len)
                    THEN base_type \o "[" \o len.s \o "]"
                    ELSE IF Has(type_node, "length") /\ IsU64(len)
                    THEN base_type \o "[" \o NumStr(len.n) \o "]"
                    ELSE base_type \o "[]"
          [] node_type = "Mapping" ->
                "mapping(" \o extract_type_name(Get(type_node, "keyType"))
                    \o "=>" \o extract_type_name(Get(type_node, "valueType")) \o ")"
          [] node_type = "TupleType" ->
                LET components == Get(type_node, "components")
                IN  IF IsArr(components)
                    THEN "(" \o join([i \in 1..Len(components.a) |->
                                         extract_type_name(components.a[i])], ", ")
                             \o ")"
                    ELSE "tuple"
          [] node_type = "FunctionTypeName" -> "function"
          [] node_type = "AddressType" ->
                IF IsStr(Get(type_node, "stateMutability"))
                   /\ Get(type_node, "stateMutability").s = "payable"
                THEN "address payable"
                ELSE "address"
          [] OTHER ->
                IF IsStr(Get(Get(type_node, "typeDescriptions"), "typeString"))
                THEN Get(Get(type_node, "typeDescriptions"), "typeString").s
                ELSE "unknown"

\* Option<String>
None == [some |-> FALSE, v |-> ""]
Some(x) == [some |-> TRUE, v |-> x]

\* the type of a parameter node: its typeName resolved, else its free-text
\* typeDescriptions.typeString, else "unknown"
param_type_of(param) ==
    LET t == IF Has(param, "typeName")
             THEN extract_type_name(Get(param, "typeName"))
             ELSE "unknown"
        ts == Get(Get(param, "typeDescriptions"), "typeString")
    IN  IF t = "unknown" /\ IsStr(ts) THEN ts.s ELSE t

\* extract_return_type as it would be if the absence of return parameters were
\* resolved like an absent type, to Some("unknown") (C9 is tried against it)
extract_return_type_unknown(function_node) ==
    LET parameters == ArrOr(Get(Get(function_node, "returnParameters"), "parameters"))
    IN  IF parameters = <<>> THEN Some("unknown")
        ELSE Some(join([i \in 1..Len(parameters) |-> param_type_of(parameters[i])], ", "))

extract_return_type(function_node) ==
    LET parameters == Get(Get(function_node, "returnParameters"), "parameters")
    IN  IF ~IsArr(parameters) \/ parameters.a = <<>> THEN None
        ELSE
        LET ps == parameters.a
            return_types == [i \in 1..Len(ps) |-> param_type_of(ps[i])]
            Named(p) == IsStr(Get(p, "name")) /\ Get(p, "name").s # ""
            named == SelectSeq(ps, Named)
            return_names == [i \in 1..Len(named) |-> Get(named[i], "name").s]
        IN  IF return_names # <<>> /\ Len(return_names) = Len(return_types)
            THEN Some(join([i \in 1..Len(ps) |->
                              return_names[i] \o ": " \o return_types[i]], ", "))
            ELSE Some(join(return_types, ", "))

common_functions ==
    << <<"constructor", "Contract initialization">>,
       <<"transfer", "Transfer tokens or ETH">>,
       <<"approve", "Approve token spending">>,
       <<"mint", "Create new tokens">>,
       <<"burn", "Destroy tokens">>,
       <<"deposit", "Deposit funds">>,
       <<"withdraw", "Withdraw funds">>,
       <<"claim", "Claim rewards or tokens">>,
       <<"stake", "Stake tokens">>,
       <<"unstake", "Unstake tokens">>,
       <<"vote", "Cast vote">>,
       <<"execute", "Execute operation">>,
       <<"deploy", "Deploy new contract instance">>,
       <<"predictAddress", "Calculate deterministic address">>,
       <<"airdrop", "Distribute tokens to addresses">>,
       <<"airdropToAddresses", "Send ETH to multiple addresses">>,
       <<"airdropToKeyIds", "Send ETH to wallets identified by public keys">> >>

\* key.to_lowercase() of every entry of the table
lowered_keys ==
    [i \in 1..Len(common_functions) |-> to_lowercase(common_functions[i][1])]

\* get_function_purpose as it would be if the last matching entry of the
\* table won (C18 is tried against it)
get_function_purpose_last_match(function_name) ==
    LET lowered == to_lowercase(function_name)
        hits == {i \in 1..Len(common_functions) : contains(lowered, lowered_keys[i])}
    IN  IF hits = {} THEN None
        ELSE Some(common_functions[CHOOSE i \in hits : \A j \in hits : i >= j][2])

get_function_purpose(function_name) ==
    LET lowered == to_lowercase(function_name)
        hits == {i \in 1..Len(common_functions) : contains(lowered, lowered_keys[i])}
    IN  IF hits = {} THEN None
        ELSE Some(common_functions[CHOOSE i \in hits : \A j \in hits : i <= j][2])

important_prefixes ==
    <<"owner", "admin", "token", "deployer", "implementation", "registry", "factory">>

is_important_variable(var_name) ==
    LET lowered == to_lowercase(var_name)
    IN  \E i \in 1..Len(important_prefixes) : contains(lowered, important_prefixes[i])

guess_type_from_name(name) ==
    LET lowered == to_lowercase(name)
    IN  IF starts_with(name, "is") \/ starts_with(name, "has") THEN "bool"
        ELSE IF contains(lowered, "amount") \/ contains(lowered, "value")
                \/ contains(lowered, "balance") THEN "uint256"
        ELSE IF contains(lowered, "address") \/ ends_with(name, "Addr") THEN "address"
        ELSE IF contains(lowered, "id") THEN "bytes32"
        ELSE IF contains(lowered, "key") THEN "bytes"
        ELSE "any"

\* the inner loop of merge_ast_json: the keys of an object of the source
\* merged into the object the target holds under the same key; arrays are
\* extended, every other value of the source replaces the target's
merge_inner(target_inner, source_inner) ==
    JObj([inner_key \in DOMAIN target_inner.o \cup DOMAIN source_inner.o |->
            IF inner_key \notin DOMAIN source_inner.o THEN target_inner.o[inner_key]
            ELSE IF inner_key \notin DOMAIN target_inner.o THEN source_inner.o[inner_key]
            ELSE LET temp_value == target_inner.o[inner_key]
                     inner_value == source_inner.o[inner_key]
                 IN  IF IsArr(temp_value) /\ IsArr(inner_value)
                     THEN JArr(temp_value.a \o inner_value.a)
                     ELSE inner_value])

\* merge_ast_json: the target after the call
merge_ast_json(target, source) ==
    IF IsObj(target) /\ IsObj(source)
    THEN JObj([key \in DOMAIN target.o \cup DOMAIN source.o |->
                 IF key \notin DOMAIN source.o THEN target.o[key]
                 ELSE IF key \notin DOMAIN target.o THEN source.o[key]
                 ELSE LET mine == target.o[key]
                          value == source.o[key]
                      IN  IF IsArr(mine) /\ IsArr(value) THEN JArr(mine.a \o value.a)
                          ELSE IF IsObj(mine) /\ IsObj(value) THEN merge_inner(mine, value)
                          ELSE value])
    ELSE target

get_literal_type(literal) ==
    LET kind == Get(literal, "kind")
    IN  IF ~IsStr(kind) THEN "any"
        ELSE CASE kind.s = "number" -> "uint256"
               [] kind.s = "string" -> "string"
               [] kind.s = "bool" -> "bool"
               [] OTHER -> "any"

-----------------------------------------------------------------------------
(* src/src/ast.rs: the body walker                                         *)

\* keys of an object in the order serde_json's map iterates them
RECURSIVE SortSet(_)
SortSet(S) ==
    IF S = {} THEN <<>>
    ELSE LET m == CHOOSE x \in S : \A y \in S \ {x} : StrLess(x, y)
         IN  <<m>> \o SortSet(S \ {m})

RECURSIVE SortSetInt(_)
SortSetInt(S) ==
    IF S = {} THEN <<>>
    ELSE LET m == CHOOSE x \in S : \A y \in S : x <= y
         IN  <<m>> \o SortSetInt(S \ {m})

\* Value::to_string(): the compact JSON text of a value
RECURSIVE to_string(_)
to_string(v) ==
    CASE v.t = "null" -> "null"
      [] v.t = "str" -> "\"" \o v.s \o "\""
      [] v.t = "bool" -> IF v.b THEN "true" ELSE "false"
      [] v.t = "num" -> IF v.n < 0 THEN "-" \o NumStr(0 - v.n) ELSE NumStr(v.n)
      [] v.t = "arr" ->
            "[" \o join([i \in 1..Len(v.a) |-> to_string(v.a[i])], ",") \o "]"
      [] v.t = "obj" ->
            LET keys == SortSet(DOMAIN v.o)
            IN  "{" \o join([i \in 1..Len(keys) |->
                               "\"" \o keys[i] \o "\":" \o to_string(v.o[keys[i]])], ",")
                    \o "}"

\* the `name: type` rendering of one call argument, <<>> when the argument is
\* neither a named identifier nor a literal with a value
arg_with_type(arg) ==
    IF NodeTypeIs(arg, "Identifier")
    THEN IF IsStr(Get(arg, "name"))
         THEN <<Get(arg, "name").s \o ": " \o guess_type_from_name(Get(arg, "name").s)>>
         ELSE <<>>
    ELSE IF NodeTypeIs(arg, "Literal")
    THEN IF Has(arg, "value")
         THEN <<to_string(Get(arg, "value")) \o ": " \o get_literal_type(arg)>>
         ELSE <<>>
    ELSE <<>>

RECURSIVE args_with_types(_)
args_with_types(arguments) ==
    IF arguments = <<>> THEN <<>>
    ELSE arg_with_type(Head(arguments)) \o args_with_types(Tail(arguments))

\* arg_str of a call node: its typed arguments joined by ", "
arg_str_of(call) == join(args_with_types(ArrOr(Get(call, "arguments"))), ", ")

\* indent as it would be with a prefix of two blanks (C16 is tried against it)
indent_by_two(lines) == [i \in 1..Len(lines) |-> "  " \o lines[i]]

indent(lines) == [i \in 1..Len(lines) |-> "    " \o lines[i]]

RECURSIVE loop_description_of(_, _)
loop_description_of(declarations, description) ==
    IF declarations = <<>> THEN description
    ELSE LET decl == Head(declarations)
             var_name == Get(decl, "name")
             loop_var_type == extract_type_name(Get(decl, "typeName"))
         IN  loop_description_of(Tail(declarations),
                 IF ~IsStr(var_name) THEN description
                 ELSE IF Has(decl, "typeName") /\ loop_var_type # "unknown"
                 THEN "For each " \o var_name.s \o ": " \o loop_var_type
                 ELSE "For each " \o var_name.s)

condition_description_of(statement) ==
    LET condition == Get(statement, "condition")
        left == Get(condition, "leftExpression")
        right == Get(condition, "rightExpression")
        op == Get(condition, "operator")
    IN  IF NodeTypeIs(condition, "BinaryOperation")
           /\ Has(condition, "leftExpression") /\ Has(condition, "rightExpression")
           /\ IsStr(op) /\ IsStr(Get(left, "name"))
        THEN IF IsStr(Get(right, "value"))
             THEN "if " \o Get(left, "name").s \o " " \o op.s \o " "
                        \o Get(right, "value").s
             ELSE IF IsU64(Get(right, "value"))
             THEN "if " \o Get(left, "name").s \o " " \o op.s \o " "
                        \o NumStr(Get(right, "value").n)
             ELSE "if condition"
        ELSE "if condition"

RECURSIVE process_function_body(_, _, _)
RECURSIVE process_statement(_, _, _)

\* the statements a loop body or a branch is walked as: its `statements`
\* array, else the node itself when it carries a nodeType, else nothing
nested_lines(contract_name, function_name, body) ==
    IF IsArr(Get(body, "statements"))
    THEN indent(process_function_body(contract_name, function_name,
                                      Get(body, "statements").a))
    ELSE IF Has(body, "nodeType")
    THEN indent(process_function_body(contract_name, function_name, <<body>>))
    ELSE <<>>

for_statement(contract_name, function_name, statement) ==
    <<"loop " \o loop_description_of(
          ArrOr(Get(Get(statement, "initializationExpression"), "declarations")),
          "For each item")>>
    \o nested_lines(contract_name, function_name, Get(statement, "body"))
    \o <<"end">>

\* if_statement as it would be without the is_object test on falseBody: a
\* falseBody key of any JSON type opens an else branch (C10 is tried against it)
if_statement_else_for_any_key(contract_name, function_name, statement) ==
    <<"alt " \o condition_description_of(statement)>>
    \o nested_lines(contract_name, function_name, Get(statement, "trueBody"))
    \o (IF Has(statement, "falseBody")
        THEN <<"else">>
             \o nested_lines(contract_name, function_name, Get(statement, "falseBody"))
        ELSE <<>>)
    \o <<"end">>

if_statement(contract_name, function_name, statement) ==
    <<"alt " \o condition_description_of(statement)>>
    \o nested_lines(contract_name, function_name, Get(statement, "trueBody"))
    \o (IF IsObj(Get(statement, "falseBody"))
        THEN <<"else">>
             \o nested_lines(contract_name, function_name, Get(statement, "falseBody"))
        ELSE <<>>)
    \o <<"end">>

emit_statement(contract_name, statement) ==
    LET event_call == Get(statement, "eventCall")
        event_name == Get(Get(event_call, "expression"), "name")
    IN  IF IsStr(event_name)
        THEN <<contract_name \o "->>Events: emit " \o event_name.s
                   \o "(" \o arg_str_of(event_call) \o ")">>
        ELSE <<>>

purpose_note(contract_name, member_name) ==
    LET func_purpose == get_function_purpose(member_name)
    IN  IF func_purpose.some
        THEN <<"Note right of " \o contract_name \o ": " \o func_purpose.v>>
        ELSE <<>>

expression_statement(contract_name, statement) ==
    LET expression == Get(statement, "expression")
        call_expr == Get(expression, "expression")
        member_name == StrOr(Get(call_expr, "memberName"), "unknown")
        base_expr == Get(call_expr, "expression")
        target_name == StrOr(Get(base_expr, "name"), "Unknown")
        arg_str == arg_str_of(expression)
    IN  IF ~(NodeTypeIs(expression, "FunctionCall")
             /\ NodeTypeIs(call_expr, "MemberAccess")
             /\ Has(call_expr, "expression"))
        THEN <<>>
        ELSE IF NodeTypeIs(base_expr, "Identifier")
        THEN purpose_note(contract_name, member_name)
             \o (IF member_name = "transfer" \/ member_name = "send"
                 THEN <<contract_name \o "->>+" \o target_name \o ": "
                            \o member_name \o "(" \o arg_str \o ")",
                        target_name \o "-->>-" \o contract_name \o ": return (success)">>
                 ELSE IF (member_name = "transferFrom" \/ member_name = "transfer")
                         /\ contains(to_lowercase(target_name), "token")
                 THEN <<contract_name \o "->>+TokenContract: "
                            \o member_name \o "(" \o arg_str \o ")",
                        "TokenContract-->>-" \o contract_name \o ": return (success)">>
                 ELSE <<contract_name \o "->>+" \o target_name \o ": "
                            \o member_name \o "(" \o arg_str \o ")",
                        target_name \o "-->>-" \o contract_name \o ": return">>)
        ELSE IF NodeTypeIs(base_expr, "FunctionCall")
                /\ IsStr(Get(base_expr, "kind"))
                /\ Get(base_expr, "kind").s = "typeConversion"
                /\ (member_name = "transfer" \/ member_name = "send"
                    \/ member_name = "call")
        THEN <<contract_name \o "->>+Recipient: ETH "
                   \o member_name \o "(" \o arg_str \o ")",
               "Recipient-->>-" \o contract_name \o ": return (success)">>
        ELSE <<>>

\* variable_declaration_statement as it would be if the return line never
\* named the declared variables (C23 is tried against it)
variable_declaration_statement_result_only(contract_name, statement) ==
    LET init_value == Get(statement, "initialValue")
        call_expr == Get(init_value, "expression")
        member_name == StrOr(Get(call_expr, "memberName"), "unknown")
        base_expr == Get(call_expr, "expression")
        target_name == StrOr(Get(base_expr, "name"), "Unknown")
    IN  IF NodeTypeIs(init_value, "FunctionCall")
           /\ NodeTypeIs(call_expr, "MemberAccess")
           /\ NodeTypeIs(base_expr, "Identifier")
        THEN <<contract_name \o "->>+" \o target_name \o ": "
                   \o member_name \o "(" \o arg_str_of(init_value) \o ")",
               target_name \o "-->>-" \o contract_name \o ": return → result">>
        ELSE <<>>

variable_declaration_statement(contract_name, statement) ==
    LET init_value == Get(statement, "initialValue")
        call_expr == Get(init_value, "expression")
        member_name == StrOr(Get(call_expr, "memberName"), "unknown")
        base_expr == Get(call_expr, "expression")
        target_name == StrOr(Get(base_expr, "name"), "Unknown")
        arg_str == arg_str_of(init_value)
        Named(decl) == IsStr(Get(decl, "name"))
        named == SelectSeq(ArrOr(Get(statement, "declarations")), Named)
        var_names == [i \in 1..Len(named) |-> Get(named[i], "name").s]
        var_str == IF var_names # <<>> THEN join(var_names, ", ") ELSE "result"
    IN  IF NodeTypeIs(init_value, "FunctionCall")
           /\ NodeTypeIs(call_expr, "MemberAccess")
           /\ NodeTypeIs(base_expr, "Identifier")
        THEN <<contract_name \o "->>+" \o target_name \o ": "
                   \o member_name \o "(" \o arg_str \o ")",
               target_name \o "-->>-" \o contract_name \o ": return → " \o var_str>>
        ELSE <<>>

process_statement(contract_name, function_name, statement) ==
    LET node_type == StrOr(Get(statement, "nodeType"), "")
    IN  CASE node_type = "ForStatement" ->
                for_statement(contract_name, function_name, statement)
          [] node_type = "IfStatement" ->
                if_statement(contract_name, function_name, statement)
          [] node_type = "EmitStatement" -> emit_statement(contract_name, statement)
          [] node_type = "ExpressionStatement" ->
                expression_statement(contract_name, statement)
          [] node_type = "VariableDeclarationStatement" ->
                variable_declaration_statement(contract_name, statement)
          [] OTHER -> <<>>

\* process_function_body as it would be if a statement of unrecognized kind
\* ended the loop (C17 is tried against it)
RECURSIVE process_function_body_until_unknown(_, _, _)
process_function_body_until_unknown(contract_name, function_name, statements) ==
    IF statements = <<>> THEN <<>>
    ELSE IF StrOr(Get(Head(statements), "nodeType"), "")
               \notin {"ForStatement", "IfStatement", "EmitStatement",
                        "ExpressionStatement", "VariableDeclarationStatement"}
    THEN <<>>
    ELSE process_statement(contract_name, function_name, Head(statements))
         \o process_function_body_until_unknown(contract_name, function_name,
                                                Tail(statements))

process_function_body(contract_name, function_name, statements) ==
    IF statements = <<>> THEN <<>>
    ELSE process_statement(contract_name, function_name, Head(statements))
         \o process_function_body(contract_name, function_name, Tail(statements))

-----------------------------------------------------------------------------
(* src/src/types.rs and src/src/ast.rs: the contract extractor             *)

\* DiagramData::default().  `contracts` (a HashMap) is a function from the
\* contract names to ContractInfo; `contract_interactions` (an IndexMap) is
\* the sequence of its entries in insertion order.
DefaultData ==
    [participants |-> {},
     contracts |-> <<>>,
     user_interactions |-> <<>>,
     contract_interactions |-> <<>>,
     events |-> <<>>,
     contract_relationships |-> <<>>]

\* Result<DiagramData>
Ok(d) == [ok |-> TRUE, data |-> d]
Err(d) == [ok |-> FALSE, data |-> d]

\* HashMap::insert
MapInsert(m, k, v) == [x \in (DOMAIN m) \cup {k} |-> IF x = k THEN v ELSE m[x]]

\* IndexMap::insert: a present key keeps its place and takes the new value
IndexMapInsert(m, k, v) ==
    IF \E i \in 1..Len(m) : m[i].key = k
    THEN [i \in 1..Len(m) |-> IF m[i].key = k THEN [key |-> k, lines |-> v] ELSE m[i]]
    ELSE Append(m, [key |-> k, lines |-> v])

\* ContractRelationship as it would be if every relationship recorded were of
\* kind "calls" (C24 is tried against it)
RelationshipAsCalls(s, tg, r) == [source |-> s, target |-> tg, relation_type |-> "calls"]

Relationship(s, tg, r) == [source |-> s, target |-> tg, relation_type |-> r]

\* acc = [info |-> ContractInfo, data |-> DiagramData]
RECURSIVE collect_bases(_, _, _)
collect_bases(base_contracts, contract_name, acc) ==
    IF base_contracts = <<>> THEN acc
    ELSE LET base_name == Get(Get(Head(base_contracts), "baseName"), "name")
         IN  collect_bases(Tail(base_contracts), contract_name,
                IF IsStr(base_name)
                THEN [info |-> [acc.info EXCEPT
                                  !.inherits_from = Append(@, base_name.s)],
                      data |-> [acc.data EXCEPT
                                  !.contract_relationships =
                                      Append(@, Relationship(contract_name,
                                                             base_name.s, "inherits"))]]
                ELSE acc)

RECURSIVE collect_members(_, _, _)
collect_members(contract_nodes, contract_name, acc) ==
    IF contract_nodes = <<>> THEN acc
    ELSE
    LET contract_node == Head(contract_nodes)
        node_type == StrOr(Get(contract_node, "nodeType"), "")
        event_name == StrOr(Get(contract_node, "name"), "UnknownEvent")
        var_name == StrOr(Get(contract_node, "name"), "unknown")
        var_type == extract_type_name(Get(contract_node, "typeName"))
    IN  collect_members(Tail(contract_nodes), contract_name,
           CASE node_type = "EventDefinition" ->
                   [info |-> [acc.info EXCEPT !.events = Append(@, event_name)],
                    data |-> [acc.data EXCEPT
                                !.events = Append(@, <<contract_name, event_name>>)]]
             [] node_type = "VariableDeclaration" ->
                   [info |-> [acc.info EXCEPT
                                !.variables = Append(@, <<var_name, var_type>>)],
                    data |-> IF var_type \in acc.data.participants
                                \/ contains(to_lowercase(var_type), "address")
                             THEN [acc.data EXCEPT
                                     !.contract_relationships =
                                         Append(@, Relationship(contract_name,
                                                                var_type, "references"))]
                             ELSE acc.data]
             [] OTHER -> acc)

collect_contract(source_unit, node, d) ==
    LET contract_name == StrOr(Get(node, "name"), "Unknown")
        d1 == [d EXCEPT !.participants = @ \cup {contract_name}]
        contract_info ==
            [name |-> contract_name,
             events |-> <<>>,
             functions |-> <<>>,
             variables |-> <<>>,
             inherits_from |-> <<>>,
             contract_type |-> StrOr(Get(node, "contractKind"), "contract"),
             source_file |-> StrOr(Get(source_unit, "absolutePath"), "unknown")]
        a1 == collect_bases(ArrOr(Get(node, "baseContracts")), contract_name,
                            [info |-> contract_info, data |-> d1])
        a2 == collect_members(ArrOr(Get(node, "nodes")), contract_name, a1)
    IN  [a2.data EXCEPT !.contracts = MapInsert(@, contract_name, a2.info)]

RECURSIVE collect_nodes(_, _, _)
collect_nodes(source_unit, nodes, d) ==
    IF nodes = <<>> THEN d
    ELSE collect_nodes(source_unit, Tail(nodes),
            IF NodeTypeIs(Head(nodes), "ContractDefinition")
            THEN collect_contract(source_unit, Head(nodes), d)
            ELSE d)

\* collect_contracts_and_variables as it would be if a contract declaration
\* without a name were an error instead of "Unknown" (C3 is tried against it)
collect_contracts_and_variables_strict(source_unit, d) ==
    IF ~IsArr(Get(source_unit, "nodes")) THEN Err(d)
    ELSE IF \E i \in 1..Len(Get(source_unit, "nodes").a) :
               /\ NodeTypeIs(Get(source_unit, "nodes").a[i], "ContractDefinition")
               /\ ~IsStr(Get(Get(source_unit, "nodes").a[i], "name"))
    THEN Err(d)
    ELSE Ok(collect_nodes(source_unit, Get(source_unit, "nodes").a, d))

collect_contracts_and_variables(source_unit, d) ==
    IF ~IsArr(Get(source_unit, "nodes")) THEN Err(d)
    ELSE Ok(collect_nodes(source_unit, Get(source_unit, "nodes").a, d))

\* the call signature `name(p1: t1, ...)` of a function node: parameters
\* without a name are left out
call_message(function_name, contract_node) ==
    LET parameters == ArrOr(Get(Get(contract_node, "parameters"), "parameters"))
        Named(param) == StrOr(Get(param, "name"), "") # ""
        named == SelectSeq(parameters, Named)
    IN  IF named = <<>> THEN function_name \o "()"
        ELSE function_name \o "("
             \o join([i \in 1..Len(named) |->
                        Get(named[i], "name").s \o ": " \o param_type_of(named[i])], ", ")
             \o ")"

\* return_line as it would be if the mutability were looked at before the
\* return parameters (C13 is tried against it)
return_line_view_first(contract_name, contract_node) ==
    LET return_type == extract_return_type(contract_node)
        state_mutability == StrOr(Get(contract_node, "stateMutability"), "")
    IN  IF state_mutability = "view" \/ state_mutability = "pure"
        THEN contract_name \o "-->>-User: return (view function)"
        ELSE IF return_type.some
        THEN contract_name \o "-->>-User: return " \o return_type.v
        ELSE contract_name \o "-->>-User: return"

return_line(contract_name, contract_node) ==
    LET return_type == extract_return_type(contract_node)
        state_mutability == StrOr(Get(contract_node, "stateMutability"), "")
    IN  IF return_type.some
        THEN contract_name \o "-->>-User: return " \o return_type.v
        ELSE IF state_mutability = "view" \/ state_mutability = "pure"
        THEN contract_name \o "-->>-User: return (view function)"
        ELSE contract_name \o "-->>-User: return"

\* process_function as it would be without the test of the visibility: every
\* function is shown as a call of the user (C12 is tried against it)
process_function_any_visibility(contract_name, contract_node, d) ==
    LET name == Get(contract_node, "name")
        function_name ==
            IF name.s = "" /\ IsStr(Get(contract_node, "kind"))
               /\ Get(contract_node, "kind").s = "constructor"
            THEN "constructor" ELSE name.s
        d1 == IF contract_name \in DOMAIN d.contracts
              THEN [d EXCEPT !.contracts[contract_name].functions =
                                 Append(@, function_name)]
              ELSE d
        function_purpose == get_function_purpose(function_name)
    IN  IF ~IsStr(name) THEN d
        ELSE [d1 EXCEPT
                !.user_interactions =
                    @ \o (IF function_purpose.some
                          THEN <<"Note over User," \o contract_name \o ": "
                                    \o function_purpose.v>>
                          ELSE <<>>)
                      \o <<"User->>+" \o contract_name \o ": "
                              \o call_message(function_name, contract_node)>>
                      \o <<return_line(contract_name, contract_node)>>]

process_function(contract_name, contract_node, d) ==
    LET name == Get(contract_node, "name")
        function_name ==
            IF name.s = "" /\ IsStr(Get(contract_node, "kind"))
               /\ Get(contract_node, "kind").s = "constructor"
            THEN "constructor" ELSE name.s
        d1 == IF contract_name \in DOMAIN d.contracts
              THEN [d EXCEPT !.contracts[contract_name].functions =
                                 Append(@, function_name)]
              ELSE d
        visibility == StrOr(Get(contract_node, "visibility"), "")
        function_purpose == get_function_purpose(function_name)
        statements == Get(Get(contract_node, "body"), "statements")
    IN  IF ~IsStr(name) THEN d
        ELSE IF ~(visibility = "public" \/ visibility = "external") THEN d1
        ELSE [d1 EXCEPT
                !.user_interactions =
                    @ \o (IF function_purpose.some
                          THEN <<"Note over User," \o contract_name \o ": "
                                    \o function_purpose.v>>
                          ELSE <<>>)
                      \o <<"User->>+" \o contract_name \o ": "
                              \o call_message(function_name, contract_node)>>
                      \o <<return_line(contract_name, contract_node)>>,
                !.contract_interactions =
                    IF IsArr(statements)
                    THEN IndexMapInsert(@, contract_name \o "." \o function_name,
                             process_function_body(contract_name, function_name,
                                                   statements.a))
                    ELSE @]

RECURSIVE process_members(_, _, _)
process_members(contract_nodes, contract_name, d) ==
    IF contract_nodes = <<>> THEN d
    ELSE process_members(Tail(contract_nodes), contract_name,
            IF NodeTypeIs(Head(contract_nodes), "FunctionDefinition")
            THEN process_function(contract_name, Head(contract_nodes), d)
            ELSE d)

RECURSIVE process_nodes(_, _)
process_nodes(nodes, d) ==
    IF nodes = <<>> THEN d
    ELSE process_nodes(Tail(nodes),
            IF NodeTypeIs(Head(nodes), "ContractDefinition")
            THEN process_members(ArrOr(Get(Head(nodes), "nodes")),
                                 StrOr(Get(Head(nodes), "name"), "Unknown"), d)
            ELSE d)

process_functions_and_interactions(source_unit, d) ==
    IF ~IsArr(Get(source_unit, "nodes")) THEN Err(d)
    ELSE Ok(process_nodes(Get(source_unit, "nodes").a, d))

\* the default participants as they would be if none were added (C7 is tried
\* against it)
NoDefaultParticipants == {}

DefaultParticipants == {"User", "Events", "TokenContract"}

\* The source units extract_contract_info walks, in order: the document
\* itself when it has no `sources` key, else the AST of every entry of
\* `sources` that has one (entries without an "AST" key are passed over).
SourceUnits(document) ==
    IF ~Has(document, "sources") THEN <<document>>
    ELSE IF ~IsObj(Get(document, "sources")) THEN <<>>
    ELSE LET sources == Get(document, "sources").o
             paths == SortSet(DOMAIN sources)
             WithAst(path) == Has(sources[path], "AST")
             kept == SelectSeq(paths, WithAst)
         IN  [i \in 1..Len(kept) |-> Get(sources[kept[i]], "AST")]

-----------------------------------------------------------------------------
(* src/src/diagram.rs                                                      *)

add_theme_config(light) ==
    <<"%%{init: {", "  'theme': 'base',", "  'themeVariables': {">>
    \o (IF light
        THEN <<"    'primaryColor': '#fafbfc',",
               "    'primaryTextColor': '#444',",
               "    'primaryBorderColor': '#e1e4e8',",
               "    'lineColor': '#a0aec0',",
               "    'secondaryColor': '#f5fbff',",
               "    'tertiaryColor': '#fff8f8'">>
        ELSE <<"    'primaryColor': '#f5f5f5',",
               "    'primaryTextColor': '#333',",
               "    'primaryBorderColor': '#999',",
               "    'lineColor': '#666',",
               "    'secondaryColor': '#f0f8ff',",
               "    'tertiaryColor': '#fff5f5'">>)
    \o <<"  }", "}}%%", "">>

\* order_participants as it would be if "Events" were sorted with the others
\* (C4 is tried against it)
order_participants_events_sorted(participants) ==
    (IF "User" \in participants THEN <<"User">> ELSE <<>>)
    \o SortSet(participants \ {"User"})

order_participants(participants) ==
    (IF "User" \in participants THEN <<"User">> ELSE <<>>)
    \o SortSet(participants \ {"User", "Events"})
    \o (IF "Events" \in participants THEN <<"Events">> ELSE <<>>)

participant_line(participant, contracts) ==
    CASE participant = "User" -> "participant User as \"External User\""
      [] participant = "Events" -> "participant Events as \"Blockchain Events\""
      [] participant = "TokenContract" ->
            "participant TokenContract as \"ERC20/ERC721 Tokens\""
      [] OTHER ->
            IF participant \notin DOMAIN contracts
            THEN "participant " \o participant
            ELSE
            LET contract_info == contracts[participant]
                Important(v) == is_important_variable(v[1])
                key_vars == SelectSeq(contract_info.variables, Important)
                taken == SubSeq(key_vars, 1, IF Len(key_vars) < 2 THEN Len(key_vars) ELSE 2)
                var_list == [i \in 1..Len(taken) |-> taken[i][1] \o ": " \o taken[i][2]]
                description_parts ==
                    <<IF contract_info.contract_type # "contract"
                      THEN participant \o " (" \o contract_info.contract_type \o ")"
                      ELSE participant>>
                    \o (IF key_vars # <<>>
                        THEN <<"(" \o join(var_list, ", ") \o ")">> ELSE <<>>)
                    \o (IF contract_info.source_file # ""
                        THEN <<"from " \o contract_info.source_file>> ELSE <<>>)
            IN  "participant " \o participant \o " as \""
                    \o join(description_parts, "<br/>") \o "\""

add_participants(ordered_participants, contracts) ==
    [i \in 1..Len(ordered_participants) |->
        participant_line(ordered_participants[i], contracts)]

section_color(title, light) ==
    IF light
    THEN CASE title = "User Interactions" -> "rgb(252, 252, 255)"
           [] title = "Contract-to-Contract Interactions" -> "rgb(248, 252, 255)"
           [] title = "Event Definitions" -> "rgb(255, 252, 252)"
           [] title = "Contract Relationships" -> "rgb(252, 255, 252)"
           [] OTHER -> "rgb(250, 250, 250)"
    ELSE CASE title = "User Interactions" -> "rgb(245, 245, 245)"
           [] title = "Contract-to-Contract Interactions" -> "rgb(240, 248, 255)"
           [] title = "Event Definitions" -> "rgb(255, 245, 245)"
           [] title = "Contract Relationships" -> "rgb(245, 255, 245)"
           [] OTHER -> "rgb(240, 240, 240)"

add_section_title(title, light) ==
    <<"rect " \o section_color(title, light), "Note over User: " \o title, "end", "">>

add_legend(light) ==
    <<"",
      "%%{init: { 'sequence': { 'showSequenceNumbers': true } }}%%",
      "",
      "rect " \o (IF light THEN "rgb(248, 252, 255)" ELSE "rgb(240, 240, 255)"),
      "Note over User: Diagram Legend",
      "end",
      "",
      "Note left of User: User→Contract: Public/External function calls",
      "Note left of User: User←Contract: Function returns",
      "Note left of User: Contract→Contract: Internal interactions",
      "Note left of User: Contract→Events: Emitted events",
      "Note left of User: Colored sections indicate different interaction types">>

\* str::split('.'): the pieces of key between its dots
split_dot(key) ==
    LET dots == {i \in 1..Len(key) : Char(key, i) = "."}
        cuts == SortSetInt(dots \cup {0, Len(key) + 1})
    IN  [i \in 1..(Len(cuts) - 1) |-> SubSeq(key, cuts[i] + 1, cuts[i + 1] - 1)]

RECURSIVE contract_interaction_lines(_)
contract_interaction_lines(entries) ==
    IF entries = <<>> THEN <<>>
    ELSE LET parts == split_dot(Head(entries).key)
         IN  (IF Head(entries).lines # <<>> /\ Len(parts) = 2
              THEN <<"Note right of " \o parts[1] \o ": Processing " \o parts[2]>>
                   \o Head(entries).lines \o <<"">>
              ELSE <<>>)
             \o contract_interaction_lines(Tail(entries))

event_lines(events) ==
    [i \in 1..Len(events) |->
        "Note over " \o events[i][1] \o "," \o events[i][1] \o ": Event: " \o events[i][2]]

\* calls_lines as it would be if the key of an emitted note were never put
\* into seen_relationships (C11 is tried against it)
RECURSIVE calls_lines_never_seen(_, _, _)
calls_lines_never_seen(relationships, participants, seen_relationships) ==
    IF relationships = <<>> THEN <<>>
    ELSE LET rel == Head(relationships)
             fresh == rel.relation_type = "calls"
                      /\ rel.source \in participants
                      /\ rel.target \in participants
         IN  (IF fresh
              THEN <<"Note right of " \o rel.source \o ": Interacts with " \o rel.target>>
              ELSE <<>>)
             \o calls_lines_never_seen(Tail(relationships), participants,
                                       seen_relationships)

\* the "Interacts with" notes: one per (source, target) of a "calls"
\* relationship between participants, the first occurrence only
RECURSIVE calls_lines(_, _, _)
calls_lines(relationships, participants, seen_relationships) ==
    IF relationships = <<>> THEN <<>>
    ELSE LET rel == Head(relationships)
             rel_key == rel.source \o "->" \o rel.target
             fresh == rel.relation_type = "calls"
                      /\ rel.source \in participants
                      /\ rel.target \in participants
                      /\ rel_key \notin seen_relationships
         IN  (IF fresh
              THEN <<"Note right of " \o rel.source \o ": Interacts with " \o rel.target>>
              ELSE <<>>)
             \o calls_lines(Tail(relationships), participants,
                            IF fresh THEN seen_relationships \cup {rel_key}
                            ELSE seen_relationships)

\* the relationships of which the loop above emits a note, in its order
RECURSIVE emitted_relationships(_, _, _)
emitted_relationships(relationships, participants, seen_relationships) ==
    IF relationships = <<>> THEN <<>>
    ELSE LET rel == Head(relationships)
             rel_key == rel.source \o "->" \o rel.target
             fresh == rel.relation_type = "calls"
                      /\ rel.source \in participants
                      /\ rel.target \in participants
                      /\ rel_key \notin seen_relationships
         IN  (IF fresh THEN <<rel>> ELSE <<>>)
             \o emitted_relationships(Tail(relationships), participants,
                                      IF fresh THEN seen_relationships \cup {rel_key}
                                      ELSE seen_relationships)

\* The relationships section.  `order` is the order in which this HashMap
\* yields the contract names: the three loops walk the same unmodified map,
\* so they share it.
relationship_lines(d, light, order) ==
    LET HasFunctions(c) == d.contracts[c].functions # <<>>
        HasBases(c) == d.contracts[c].inherits_from # <<>>
        NotContract(c) == d.contracts[c].contract_type # "contract"
        withFunctions == SelectSeq(order, HasFunctions)
        withBases == SelectSeq(order, HasBases)
        typed == SelectSeq(order, NotContract)
    IN  <<"">> \o add_section_title("Contract Relationships", light)
        \o [i \in 1..Len(withFunctions) |->
              "Note over " \o withFunctions[i] \o ": Functions: "
                  \o join(d.contracts[withFunctions[i]].functions, ", ")]
        \o <<"">>
        \o [i \in 1..Len(withBases) |->
              "Note right of " \o withBases[i] \o ": Inherits from: "
                  \o join(d.contracts[withBases[i]].inherits_from, ", ")]
        \o <<"">>
        \o [i \in 1..Len(typed) |->
              "Note right of " \o typed[i] \o ": Type: "
                  \o d.contracts[typed[i]].contract_type]
        \o (IF d.contract_relationships # <<>>
            THEN <<"">> \o calls_lines(d.contract_relationships, d.participants, {})
            ELSE <<>>)

\* The fenced-code-block marker, three backquotes in the source.  A TLA+ string
\* cannot hold a backquote, so the marker is written with apostrophes here; it
\* occurs in the first and the last line of every diagram and nowhere else.
Fence == "'''"

\* the lines generate_sequence_diagram assembles from the extracted data
diagram_lines(d, light, order) ==
    <<Fence \o "mermaid", "sequenceDiagram",
      "title Smart Contract Interaction Sequence Diagram", "autonumber", "">>
    \o add_theme_config(light)
    \o add_participants(order_participants(d.participants), d.contracts)
    \o <<"">>
    \o add_section_title("User Interactions", light)
    \o d.user_interactions
    \o (IF d.contract_interactions # <<>>
        THEN <<"">> \o add_section_title("Contract-to-Contract Interactions", light)
             \o contract_interaction_lines(d.contract_interactions)
        ELSE <<>>)
    \o (IF d.events # <<>>
        THEN <<"">> \o add_section_title("Event Definitions", light)
             \o event_lines(d.events)
        ELSE <<>>)
    \o (IF DOMAIN d.contracts # {}
        THEN relationship_lines(d, light, order)
        ELSE <<>>)
    \o add_legend(light)
    \o <<Fence>>

\* the orders in which a HashMap with these keys can yield them
RECURSIVE IterationOrders(_)
IterationOrders(keys) ==
    IF keys = {} THEN {<<>>}
    ELSE UNION {{<<k>> \o rest : rest \in IterationOrders(keys \ {k})} : k \in keys}

-----------------------------------------------------------------------------
(* The inputs: AST documents as solc writes them, and documents with gaps. *)

Elementary(n) == JObj([nodeType |-> JStr("ElementaryTypeName"), name |-> JStr(n)])
UserDefined(n) ==
    JObj([nodeType |-> JStr("UserDefinedTypeName"),
          pathNode |-> JObj([name |-> JStr(n)])])
Identifier(n) == JObj([nodeType |-> JStr("Identifier"), name |-> JStr(n)])
Literal(kind, value) ==
    JObj([nodeType |-> JStr("Literal"), kind |-> JStr(kind), value |-> value])
Param(n, type) ==
    JObj([nodeType |-> JStr("VariableDeclaration"), name |-> JStr(n), typeName |-> type])
ParamList(ps) == JObj([nodeType |-> JStr("ParameterList"), parameters |-> JArr(ps)])
Block(stmts) == JObj([nodeType |-> JStr("Block"), statements |-> JArr(stmts)])
StateVar(n, type) ==
    JObj([nodeType |-> JStr("VariableDeclaration"), name |-> JStr(n),
          stateVariable |-> JBool(TRUE), typeName |-> type])
Event(n) == JObj([nodeType |-> JStr("EventDefinition"), name |-> JStr(n)])
Base(n) ==
    JObj([nodeType |-> JStr("InheritanceSpecifier"),
          baseName |-> JObj([nodeType |-> JStr("IdentifierPath"), name |-> JStr(n)])])

\* target.member(args) as an expression
MemberCall(target, member, args) ==
    JObj([nodeType |-> JStr("FunctionCall"),
          kind |-> JStr("functionCall"),
          expression |-> JObj([nodeType |-> JStr("MemberAccess"),
                               memberName |-> JStr(member),
                               expression |-> target]),
          arguments |-> JArr(args)])
\* callee(args) as an expression
PlainCall(callee, args) ==
    JObj([nodeType |-> JStr("FunctionCall"),
          kind |-> JStr("functionCall"),
          expression |-> Identifier(callee),
          arguments |-> JArr(args)])
ExprStmt(e) == JObj([nodeType |-> JStr("ExpressionStatement"), expression |-> e])
Emit(n, args) ==
    JObj([nodeType |-> JStr("EmitStatement"),
          eventCall |-> JObj([nodeType |-> JStr("FunctionCall"),
                              expression |-> Identifier(n),
                              arguments |-> JArr(args)])])
Compare(l, op, r) ==
    JObj([nodeType |-> JStr("BinaryOperation"), operator |-> JStr(op),
          leftExpression |-> l, rightExpression |-> r])
\* if (cond) trueBody, without an else: solc leaves falseBody out or null
If(cond, trueBody) ==
    JObj([nodeType |-> JStr("IfStatement"), condition |-> cond, trueBody |-> trueBody])
IfNullElse(cond, trueBody) ==
    JObj([nodeType |-> JStr("IfStatement"), condition |-> cond, trueBody |-> trueBody,
          falseBody |-> JNull])
IfElse(cond, trueBody, falseBody) ==
    JObj([nodeType |-> JStr("IfStatement"), condition |-> cond, trueBody |-> trueBody,
          falseBody |-> falseBody])
For(decls, body) ==
    JObj([nodeType |-> JStr("ForStatement"),
          initializationExpression |->
              JObj([nodeType |-> JStr("VariableDeclarationStatement"),
                    declarations |-> JArr(decls)]),
          body |-> body])
VarDeclStmt(decls, init) ==
    JObj([nodeType |-> JStr("VariableDeclarationStatement"),
          declarations |-> JArr(decls), initialValue |-> init])
Return == JObj([nodeType |-> JStr("Return")])

Function(n, visibility, mutability, params, returns, body) ==
    JObj([nodeType |-> JStr("FunctionDefinition"), name |-> JStr(n),
          kind |-> JStr("function"), visibility |-> JStr(visibility),
          stateMutability |-> JStr(mutability),
          parameters |-> ParamList(params),
          returnParameters |-> ParamList(returns),
          body |-> body])
\* a function declared without a body (an interface's)
Declaration(n, visibility, mutability, params, returns) ==
    JObj([nodeType |-> JStr("FunctionDefinition"), name |-> JStr(n),
          kind |-> JStr("function"), visibility |-> JStr(visibility),
          stateMutability |-> JStr(mutability),
          parameters |-> ParamList(params),
          returnParameters |-> ParamList(returns)])
Contract(n, kind, bases, members) ==
    JObj([nodeType |-> JStr("ContractDefinition"), name |-> JStr(n),
          contractKind |-> JStr(kind), baseContracts |-> JArr(bases),
          nodes |-> JArr(members)])

\* contract Vault is Ownable { address owner; event Deposited;
\*   function deposit(uint256 amount) public { emit Deposited(amount); } }
Vault ==
    Contract("Vault", "contract", <<Base("Ownable")>>,
        <<StateVar("owner", Elementary("address")),
          Event("Deposited"),
          Function("deposit", "public", "nonpayable",
                   <<Param("amount", Elementary("uint256"))>>, <<>>,
                   Block(<<Emit("Deposited", <<Identifier("amount")>>)>>))>>)

\* library Bank { IERC20 token; Vault vault;
\*   function withdraw(uint256) external view returns (uint256 balance) {
\*     if (x == 5) { transfer(to); } else token.transferFrom(a, b); }
\*   function sweep() public { for (uint i; ...) token.transfer(to, 1); }
\*   function helper() internal {} }
Bank ==
    Contract("Bank", "library", <<>>,
        <<StateVar("token", UserDefined("IERC20")),
          StateVar("vault", UserDefined("Vault")),
          Function("withdraw", "external", "view",
                   <<Param("", Elementary("uint256"))>>,
                   <<Param("balance", Elementary("uint256"))>>,
                   Block(<<IfElse(Compare(Identifier("x"), "==", Literal("number", JStr("5"))),
                                  Block(<<ExprStmt(PlainCall("transfer", <<Identifier("to")>>))>>),
                                  ExprStmt(MemberCall(Identifier("token"), "transferFrom",
                                                      <<Identifier("a"), Identifier("b")>>)))>>)),
          Function("sweep", "public", "nonpayable", <<>>, <<>>,
                   Block(<<For(<<Param("i", Elementary("uint256"))>>,
                               ExprStmt(MemberCall(Identifier("token"), "transfer",
                                   <<Identifier("to"), Literal("number", JStr("1"))>>)))>>)),
          Function("helper", "internal", "nonpayable", <<>>, <<>>, Block(<<>>))>>)

\* interface aToken { event Transfer;
\*   function transfer(address to, uint256 amount) external returns (bool); }
AToken ==
    Contract("aToken", "interface", <<>>,
        <<Event("Transfer"),
          Declaration("transfer", "external", "nonpayable",
                      <<Param("to", Elementary("address")),
                        Param("amount", Elementary("uint256"))>>,
                      <<Param("", Elementary("bool"))>>)>>)

\* a contract declaration full of gaps: no name, fields of the wrong JSON
\* type, members without names, types, parameters or bodies
Gaps ==
    JObj([nodeType |-> JStr("ContractDefinition"),
          contractKind |-> JNum(1),
          baseContracts |-> JArr(<<EmptyObj, JObj([baseName |-> JObj([name |-> JNum(5)])]),
                                   JStr("Base")>>),
          nodes |-> JArr(<<
              JObj([nodeType |-> JStr("EventDefinition")]),
              JObj([nodeType |-> JStr("VariableDeclaration")]),
              JObj([nodeType |-> JStr("VariableDeclaration"), name |-> JNull,
                    typeName |-> JObj([nodeType |-> JStr("ElementaryTypeName")])]),
              JObj([nodeType |-> JStr("FunctionDefinition")]),
              JObj([nodeType |-> JStr("FunctionDefinition"), name |-> JStr("run"),
                    visibility |-> JStr("public"), parameters |-> JStr("none")]),
              JObj([nodeType |-> JStr("FunctionDefinition"), name |-> JStr(""),
                    kind |-> JStr("constructor"), visibility |-> JStr("public"),
                    parameters |-> ParamList(<<EmptyObj,
                                               JObj([name |-> JStr("x")]),
                                               JObj([name |-> JStr("y"), typeName |-> JNull])>>),
                    returnParameters |-> ParamList(<<EmptyObj>>),
                    body |-> Block(<<JObj([nodeType |-> JStr("EmitStatement")]),
                                     JObj([nodeType |-> JStr("IfStatement")]),
                                     JObj([nodeType |-> JStr("ForStatement"),
                                           body |-> JStr("x")]),
                                     ExprStmt(JNull),
                                     JObj([nodeType |-> JStr("VariableDeclarationStatement"),
                                           initialValue |-> JNum(0)]),
                                     JNull, JObj([nodeType |-> JNum(3)])>>)]),
              JNull,
              JStr("member")>>)])

\* pragma solidity ^0.8.0;
Pragma == JObj([nodeType |-> JStr("PragmaDirective")])

\* what a top-level declaration array is drawn from
Decls == <<Vault, Bank, AToken, Gaps>>

SeqsUpTo(S, n) == UNION {[1..k -> S] : k \in 0..n}

Pick(catalog, q) == [i \in 1..Len(q) |-> catalog[q[i]]]

\* a flat, single-source-unit document
FlatDoc(decls) == JObj([nodeType |-> JStr("SourceUnit"), nodes |-> JArr(decls)])

\* a source unit of a multi-source document
Unit(path, decls) ==
    JObj([nodeType |-> JStr("SourceUnit"), absolutePath |-> JStr(path),
          nodes |-> JArr(decls)])

\* what an entry of `sources` is drawn from: entries with an AST, an AST
\* without its declaration array, and an entry without an AST
Entries ==
    <<JObj([AST |-> Unit("Vault.sol", <<Vault>>)]),
      JObj([AST |-> Unit("Bank.sol", <<Pragma, Bank>>)]),
      JObj([AST |-> Unit("Gaps.sol", <<Gaps, AToken>>)]),
      JObj([AST |-> JObj([absolutePath |-> JStr("Broken.sol")])]),
      EmptyObj>>

Paths == <<"a.sol", "b.sol", "c.sol", "d.sol">>

\* a multi-source document: {"sources": {"a.sol": entry1, "b.sol": entry2, ...}}
MultiDoc(entries) ==
    JObj([sources |->
            JObj([path \in {Paths[i] : i \in 1..Len(entries)} |->
                    entries[CHOOSE i \in 1..Len(entries) : Paths[i] = path]])])

\* documents without the required arrays or objects
Malformed ==
    {EmptyObj,
     JObj([nodes |-> JStr("none")]),
     JArr(<<>>),
     JObj([sources |-> JArr(<<>>), nodes |-> JArr(<<>>)]),
     JObj([sources |-> JNull])}

Inputs ==
    {FlatDoc(Pick(Decls, q)) : q \in SeqsUpTo(1..Len(Decls), MaxContracts)}
    \cup {MultiDoc(Pick(Entries, q)) : q \in SeqsUpTo(1..Len(Entries), MaxFiles)}
    \cup Malformed

-----------------------------------------------------------------------------
(* The calls: generate_diagram_from_file on the document, one call after   *)
(* the other.  A call walks extract_contract_info source unit by source    *)
(* unit, renders, writes the output file and returns.                      *)

NoReturn == [called |-> FALSE, ok |-> FALSE, light |-> FALSE, lines |-> <<>>, text |-> ""]
NoFile == [written |-> FALSE, content |-> ""]

Idle ==
    /\ pc = "idle"
    /\ cursor = 0
    /\ data = DefaultData
    /\ diagram = <<>>

TypeIdle == typeNode = JNull /\ typeOut = "" /\ tpc = "off"
BodyIdle == bodyStmts = <<>> /\ bodyOut = <<>> /\ bpc = "off"
FnIdle == fnIn = <<>> /\ fnOut = <<>> /\ fpc = "off"

Init ==
    /\ ast \in Inputs
    /\ output_file \in BOOLEAN
    /\ light_colors = FALSE
    /\ Idle
    /\ ret = NoReturn
    /\ outFile = NoFile
    /\ TypeIdle
    /\ BodyIdle
    /\ FnIdle

\* generate_diagram_from_file(ast_file, config) is called: the file is read
\* and parsed, and generate_sequence_diagram begins
Call ==
    /\ pc = "idle"
    /\ \E flag \in BOOLEAN : light_colors' = flag
    /\ pc' = "extract"
    /\ UNCHANGED <<ast, output_file, cursor, data, diagram, ret, outFile>>
    /\ UNCHANGED <<typeVars, bodyVars, fnVars>>

\* extract_contract_info begins: a fresh DiagramData, and the choice of the
\* input shape by the `sources` key
EnterExtract ==
    /\ pc = "extract"
    /\ data' = DefaultData
    /\ IF Has(ast, "sources") /\ ~IsObj(Get(ast, "sources"))
       THEN pc' = "failed" /\ cursor' = 0
       ELSE IF SourceUnits(ast) = <<>>
       THEN pc' = "render" /\ cursor' = 0
       ELSE pc' = "collect" /\ cursor' = 1
    /\ UNCHANGED <<ast, output_file, light_colors, diagram, ret, outFile>>
    /\ UNCHANGED <<typeVars, bodyVars, fnVars>>

\* first pass over the source unit at the cursor
Collect ==
    /\ pc = "collect"
    /\ LET r == collect_contracts_and_variables(SourceUnits(ast)[cursor], data)
       IN  /\ data' = r.data
           /\ pc' = IF r.ok THEN "defaults" ELSE "failed"
    /\ UNCHANGED <<ast, output_file, light_colors, cursor, diagram, ret, outFile>>
    /\ UNCHANGED <<typeVars, bodyVars, fnVars>>

\* the default participants are added
AddDefaults ==
    /\ pc = "defaults"
    /\ data' = [data EXCEPT !.participants = @ \cup DefaultParticipants]
    /\ pc' = "process"
    /\ UNCHANGED <<ast, output_file, light_colors, cursor, diagram, ret, outFile>>
    /\ UNCHANGED <<typeVars, bodyVars, fnVars>>

\* second pass over the source unit at the cursor, then on to the next
\* source unit, or to the renderer after the last
Process ==
    /\ pc = "process"
    /\ LET r == process_functions_and_interactions(SourceUnits(ast)[cursor], data)
       IN  /\ data' = r.data
           /\ IF ~r.ok THEN pc' = "failed" /\ cursor' = cursor
              ELSE IF cursor < Len(SourceUnits(ast))
              THEN pc' = "collect" /\ cursor' = cursor + 1
              ELSE pc' = "render" /\ cursor' = cursor
    /\ UNCHANGED <<ast, output_file, light_colors, diagram, ret, outFile>>
    /\ UNCHANGED <<typeVars, bodyVars, fnVars>>

\* generate_sequence_diagram assembles the diagram from the extracted data;
\* the HashMap of contracts yields its keys in some order
Render ==
    /\ pc = "render"
    /\ \E order \in IterationOrders(DOMAIN data.contracts) :
          diagram' = diagram_lines(data, light_colors, order)
    /\ data' = DefaultData
    /\ pc' = "write"
    /\ UNCHANGED <<ast, output_file, light_colors, cursor, ret, outFile>>
    /\ UNCHANGED <<typeVars, bodyVars, fnVars>>

\* generate_diagram_from_file writes the output file, if one is configured,
\* and returns Ok(diagram)
Write ==
    /\ pc = "write"
    /\ outFile' = IF output_file
                  THEN [written |-> TRUE, content |-> join(diagram, "\n")]
                  ELSE outFile
    /\ ret' = [called |-> TRUE, ok |-> TRUE, light |-> light_colors,
               lines |-> diagram, text |-> join(diagram, "\n")]
    /\ pc' = "idle" /\ cursor' = 0 /\ diagram' = <<>>
    /\ UNCHANGED <<ast, output_file, light_colors, data>>
    /\ UNCHANGED <<typeVars, bodyVars, fnVars>>

\* an error of extract_contract_info propagates through
\* generate_sequence_diagram and generate_diagram_from_file: Err is returned
Fail ==
    /\ pc = "failed"
    /\ ret' = [called |-> TRUE, ok |-> FALSE, light |-> light_colors,
               lines |-> <<>>, text |-> ""]
    /\ pc' = "idle" /\ cursor' = 0 /\ data' = DefaultData
    /\ UNCHANGED <<ast, output_file, light_colors, diagram, outFile>>
    /\ UNCHANGED <<typeVars, bodyVars, fnVars>>

Next ==
    \/ Call
    \/ EnterExtract
    \/ Collect
    \/ AddDefaults
    \/ Process
    \/ Render
    \/ Write
    \/ Fail

Spec == Init /\ [][Next]_vars

-----------------------------------------------------------------------------
(* The type resolver on its own: extract_type_name applied to a type node. *)

Array(base) == JObj([nodeType |-> JStr("ArrayTypeName"), baseType |-> base])
FixedArray(base, len) ==
    JObj([nodeType |-> JStr("ArrayTypeName"), baseType |-> base,
          length |-> JObj([nodeType |-> JStr("Literal"), value |-> len])])
Mapping(k, v) == JObj([nodeType |-> JStr("Mapping"), keyType |-> k, valueType |-> v])
Tuple(components) == JObj([nodeType |-> JStr("TupleType"), components |-> JArr(components)])
Described(typeString) ==
    JObj([nodeType |-> JStr("Other"),
          typeDescriptions |-> JObj([typeString |-> JStr(typeString)])])

\* type nodes without sub-nodes: every variant, with its name or free-text
\* field present, absent, of the wrong JSON type, and present but empty
TypeLeaves ==
    {Elementary("uint256"), Elementary(""),
     JObj([nodeType |-> JStr("ElementaryTypeName")]),
     JObj([nodeType |-> JStr("ElementaryTypeName"), name |-> JNum(8)]),
     UserDefined("IERC20"), UserDefined(""),
     JObj([nodeType |-> JStr("UserDefinedTypeName"), name |-> JStr("Token")]),
     JObj([nodeType |-> JStr("UserDefinedTypeName"), pathNode |-> EmptyObj,
           name |-> JStr("Token")]),
     JObj([nodeType |-> JStr("UserDefinedTypeName")]),
     JObj([nodeType |-> JStr("FunctionTypeName")]),
     JObj([nodeType |-> JStr("AddressType"), stateMutability |-> JStr("payable")]),
     JObj([nodeType |-> JStr("AddressType")]),
     JObj([nodeType |-> JStr("TupleType")]),
     JObj([nodeType |-> JStr("ArrayTypeName")]),
     JObj([nodeType |-> JStr("ArrayTypeName"), baseType |-> Elementary("uint8"),
           length |-> JNull]),
     JObj([nodeType |-> JStr("Mapping")]),
     Described("uint8"), Described(""),
     JObj([nodeType |-> JStr("Other")]),
     EmptyObj, JNull, JStr("uint256")}

\* the sub-nodes the composite type nodes are built over
CoreTypes == {Elementary("uint256"), Elementary(""), JNull}
KeyTypes == {Elementary("address"), Elementary("")}

RECURSIVE NestedTypes(_)
NestedTypes(depth) ==
    IF depth = 0 THEN CoreTypes
    ELSE LET S == NestedTypes(depth - 1)
         IN  CoreTypes
             \cup {Array(b) : b \in S}
             \cup {FixedArray(b, JStr("3")) : b \in S}
             \cup {FixedArray(b, JNum(12)) : b \in S}
             \cup {Mapping(k, v) : k \in KeyTypes, v \in S}
             \cup {Tuple(<<a>>) : a \in S}
             \cup {Tuple(<<a, b>>) : a \in S, b \in KeyTypes}
             \cup {Tuple(<<>>)}

TypeNodes(depth) == TypeLeaves \cup NestedTypes(depth)

InitType ==
    /\ ast = EmptyObj
    /\ output_file = FALSE
    /\ light_colors = FALSE
    /\ Idle
    /\ ret = NoReturn
    /\ outFile = NoFile
    /\ typeNode \in TypeNodes(MaxTypeDepth)
    /\ typeOut = ""
    /\ tpc = "start"
    /\ BodyIdle
    /\ FnIdle

ResolveType ==
    /\ tpc = "start"
    /\ typeOut' = extract_type_name(typeNode)
    /\ tpc' = "done"
    /\ UNCHANGED <<typeNode, pipeVars, bodyVars, fnVars>>

NextType == ResolveType

SpecType == InitType /\ [][NextType]_vars

-----------------------------------------------------------------------------
(* The body walker on its own: process_function_body applied to a          *)
(* statement list of a function `run` of a contract `Vault`.               *)

TokenTransfer ==
    ExprStmt(MemberCall(Identifier("token"), "transfer",
                        <<Identifier("to"), Literal("number", JStr("1"))>>))
\* transfer(to, amount): a call that is no member access
PlainTransfer == ExprStmt(PlainCall("transfer", <<Identifier("to"), Identifier("amount")>>))
EmitDeposited == Emit("Deposited", <<Identifier("amount")>>)
XEquals5 == Compare(Identifier("x"), "==", Literal("number", JStr("5")))

\* if (x == 5) { transfer(to, amount); }
ExampleIf == If(XEquals5, Block(<<PlainTransfer>>))

\* statements without nested statements
\* (uint a, , uint b) = pool.getReserves(tokenId, 1);
ReservesDeclaration ==
    VarDeclStmt(<<Param("a", Elementary("uint256")), JNull,
                  Param("b", Elementary("uint256"))>>,
                MemberCall(Identifier("pool"), "getReserves",
                           <<Identifier("tokenId"), Literal("number", JStr("1"))>>))

StmtLeaves ==
    {EmitDeposited, TokenTransfer, PlainTransfer, Return, JNull,
     Emit("Paused", <<>>),
     ExprStmt(MemberCall(Identifier("rewardToken"), "transferFrom",
                         <<Identifier("from"), Identifier("isOwner")>>)),
     ExprStmt(MemberCall(Identifier("vault"), "deposit", <<Literal("string", JStr("a"))>>)),
     ExprStmt(MemberCall(Identifier("registry"), "lookup", <<Identifier("keyId")>>)),
     ExprStmt(MemberCall(JObj([nodeType |-> JStr("FunctionCall"),
                               kind |-> JStr("typeConversion")]),
                         "send", <<Identifier("amount")>>)),
     VarDeclStmt(<<Param("bal", Elementary("uint256"))>>,
                 MemberCall(Identifier("token"), "balanceOf", <<Identifier("ownerAddr")>>)),
     VarDeclStmt(<<JNull, EmptyObj>>, MemberCall(Identifier("oracle"), "price", <<>>)),
     VarDeclStmt(<<Param("n", Elementary("uint256"))>>, Literal("number", JStr("0"))),
     ReservesDeclaration,
     VarDeclStmt(<<Param("ok", Elementary("bool"))>>, PlainCall("check", <<>>)),
     VarDeclStmt(<<Param("v", Elementary("uint256"))>>,
                 MemberCall(MemberCall(Identifier("a"), "b", <<>>), "c", <<>>)),
     JObj([nodeType |-> JStr("VariableDeclarationStatement"),
           declarations |-> JArr(<<Param("u", Elementary("uint256"))>>)]),
     ExampleIf,
     If(Compare(Identifier("count"), "<", Literal("number", JNum(10))), Block(<<Return>>)),
     If(Identifier("isOpen"), Block(<<EmitDeposited>>)),
     If(Compare(Identifier("x"), "==", Identifier("y")), Block(<<EmitDeposited>>)),
     JObj([nodeType |-> JStr("IfStatement")]),
     IfElse(XEquals5, JStr("then"), JStr("else")),
     For(<<>>, Block(<<EmitDeposited>>)),
     For(<<Param("i", Elementary("uint256")), JObj([name |-> JStr("j")])>>, TokenTransfer),
     JObj([nodeType |-> JStr("ForStatement")])}

\* the statements the nested statements are built over
CoreStmts == {EmitDeposited, TokenTransfer, Return}

RECURSIVE NestedStmts(_)
NestedStmts(depth) ==
    IF depth = 0 THEN CoreStmts
    ELSE LET S == NestedStmts(depth - 1)
         IN  CoreStmts
             \cup {If(XEquals5, t) : t \in {Block(<<x>>) : x \in S} \cup S}
             \cup {IfNullElse(XEquals5, Block(<<x, Return>>)) : x \in S}
             \cup {IfElse(XEquals5, Block(<<x>>), f) :
                      x \in CoreStmts, f \in {Block(<<y>>) : y \in S} \cup S}
             \cup {IfElse(XEquals5, x, Block(<<>>)) : x \in S}
             \cup {IfElse(XEquals5, x, EmptyObj) : x \in CoreStmts}
             \cup {JObj([nodeType |-> JStr("IfStatement"),
                         falseBody |-> Block(<<x>>)]) : x \in CoreStmts}
             \cup {For(<<Param("i", Elementary("uint256"))>>, b) :
                      b \in {Block(<<x>>) : x \in S} \cup S}

\* statements of recognized and of unrecognized kinds, for the longer lists
MixedStmts == {EmitDeposited, TokenTransfer, Return, JNull}

\* the statement lists: one statement of any shape, and short lists of the
\* shallow ones
StatementLists(depth) ==
    {<<>>}
    \cup {<<x>> : x \in StmtLeaves \cup NestedStmts(depth)}
    \cup {<<x, y>> : x \in NestedStmts(1), y \in CoreStmts}
    \cup {<<x, y, z>> : x \in MixedStmts, y \in MixedStmts, z \in MixedStmts}

InitBody ==
    /\ ast = EmptyObj
    /\ output_file = FALSE
    /\ light_colors = FALSE
    /\ Idle
    /\ ret = NoReturn
    /\ outFile = NoFile
    /\ TypeIdle
    /\ bodyStmts \in StatementLists(MaxBodyDepth)
    /\ bodyOut = <<>>
    /\ bpc = "start"
    /\ FnIdle

WalkBody ==
    /\ bpc = "start"
    /\ bodyOut' = process_function_body("Vault", "run", bodyStmts)
    /\ bpc' = "done"
    /\ UNCHANGED <<bodyStmts, pipeVars, typeVars, fnVars>>

NextBody == WalkBody

SpecBody == InitBody /\ [][NextBody]_vars

-----------------------------------------------------------------------------
(* The helper functions on their own.  Each specification draws the        *)
(* arguments of one helper from a bounded set and applies the helper once. *)

\* the call pipeline, the type resolver and the body walker are not run
Unused ==
    /\ ast = EmptyObj
    /\ output_file = FALSE
    /\ light_colors = FALSE
    /\ Idle
    /\ ret = NoReturn
    /\ outFile = NoFile
    /\ TypeIdle
    /\ BodyIdle

\* the deduplication of the "calls" relationships: relationship lists over
\* participants and non-participants, with names that hold the "->" of the
\* deduplication key
RelationshipCatalog ==
    {Relationship("A", "B", "calls"), Relationship("A", "B", "inherits"),
     Relationship("B", "A", "calls"), Relationship("A", "A", "calls"),
     Relationship("A->B", "A", "calls"), Relationship("A", "B->A", "calls"),
     Relationship("A", "Ghost", "calls")}

ParticipantSets == {{"A", "B", "A->B", "B->A"}, {"A", "B"}}

InitCalls ==
    /\ Unused
    /\ fnIn \in [relationships : SeqsUpTo(RelationshipCatalog, MaxRelationships),
                  participants : ParticipantSets]
    /\ fnOut = <<>>
    /\ fpc = "calls"

DedupCalls ==
    /\ fpc = "calls"
    /\ fnOut' = calls_lines(fnIn.relationships, fnIn.participants, {})
    /\ fpc' = "done"
    /\ UNCHANGED <<fnIn, pipeVars, typeVars, bodyVars>>

NextCalls == DedupCalls

SpecCalls == InitCalls /\ [][NextCalls]_vars

\* The second pass on one function definition of a contract Vault.  A field
\* of the definition is a JSON value, or Absent when the key is not there.
Absent == [t |-> "absent"]
Field(key, value) == IF value = Absent THEN <<>> ELSE (key :> value)

FunctionNames ==
    {<<JStr("deposit"), JStr("function")>>, <<JStr("run"), JStr("function")>>,
     <<JStr(""), JStr("constructor")>>, <<JStr(""), JStr("fallback")>>,
     <<Absent, JStr("function")>>}
Visibilities == {JStr("public"), JStr("external"), JStr("internal"), JNum(1), Absent}
Mutabilities == {JStr("view"), JStr("pure"), JStr("nonpayable"), Absent}
ParameterLists ==
    {ParamList(<<>>),
     ParamList(<<Param("amount", Elementary("uint256")), Param("", Elementary("bool"))>>)}
ReturnParameterLists ==
    {Absent,
     ParamList(<<>>),
     ParamList(<<Param("balance", Elementary("uint256"))>>),
     ParamList(<<Param("", Elementary("bool"))>>),
     ParamList(<<Param("ok", Elementary("bool")), Param("left", Elementary("uint256"))>>),
     ParamList(<<Param("ok", Elementary("bool")), Param("", Elementary("uint256"))>>),
     ParamList(<<JObj([typeDescriptions |-> JObj([typeString |-> JStr("bytes")])]),
                 EmptyObj>>),
     JObj([parameters |-> JStr("none")])}
Bodies == {Absent, Block(<<EmitDeposited>>)}

FunctionShapes ==
    {JObj(("nodeType" :> JStr("FunctionDefinition"))
          @@ Field("name", n[1]) @@ Field("kind", n[2])
          @@ Field("visibility", v) @@ Field("stateMutability", m)
          @@ Field("parameters", p) @@ Field("returnParameters", r)
          @@ Field("body", b)) :
        n \in FunctionNames, v \in Visibilities, m \in Mutabilities,
        p \in ParameterLists, r \in ReturnParameterLists, b \in Bodies}

\* the DiagramData after the first pass over `contract Vault {}`
VaultCollected ==
    LET d == collect_contract(FlatDoc(<<>>), Contract("Vault", "contract", <<>>, <<>>),
                              DefaultData)
    IN  [d EXCEPT !.participants = @ \cup DefaultParticipants]

InitFunction ==
    /\ Unused
    /\ fnIn \in FunctionShapes
    /\ fnOut = <<>>
    /\ fpc = "function"

ProcessFunction ==
    /\ fpc = "function"
    /\ fnOut' = process_function("Vault", fnIn, VaultCollected)
    /\ fpc' = "done"
    /\ UNCHANGED <<fnIn, pipeVars, typeVars, bodyVars>>

NextFunction == ProcessFunction

SpecFunction == InitFunction /\ [][NextFunction]_vars

\* The contract-interactions section on its own.  The argument is the list
\* of the functions whose body lines the second pass stores, as (contract
\* name, function name, body lines); function_key and the insertion are those
\* of process_functions_and_interactions.
function_key(contract_name, function_name) == contract_name \o "." \o function_name

RECURSIVE stored_interactions(_, _)
stored_interactions(functions, m) ==
    IF functions = <<>> THEN m
    ELSE stored_interactions(Tail(functions),
            IndexMapInsert(m, function_key(Head(functions)[1], Head(functions)[2]),
                           Head(functions)[3]))

StoredFunctions ==
    {"Vault", "Lib.Math"} \X {"deposit", "run", ""}
        \X {<<>>, <<"Vault->>Events: emit Deposited(amount: uint256)">>}

InitInteractions ==
    /\ Unused
    /\ fnIn \in SeqsUpTo(StoredFunctions, MaxInteractions)
    /\ fnOut = <<>>
    /\ fpc = "interactions"

RenderInteractions ==
    /\ fpc = "interactions"
    /\ fnOut' = contract_interaction_lines(stored_interactions(fnIn, <<>>))
    /\ fpc' = "done"
    /\ UNCHANGED <<fnIn, pipeVars, typeVars, bodyVars>>

NextInteractions == RenderInteractions

SpecInteractions == InitInteractions /\ [][NextInteractions]_vars

-----------------------------------------------------------------------------
(* What the properties below read off a document and off a diagram.        *)

Range(f) == {f[i] : i \in DOMAIN f}

\* the lines of a diagram that start with prefix, in order
LinesWith(lines, prefix) ==
    LET Starts(l) == starts_with(l, prefix)
    IN  SelectSeq(lines, Starts)

\* the participant a `participant <name>[ as "..."]` line declares
ParticipantName(line) ==
    LET rest == SubSeq(line, Len("participant ") + 1, Len(line))
        spaces == {i \in 1..Len(rest) : Char(rest, i) = " "}
    IN  IF spaces = {} THEN rest
        ELSE SubSeq(rest, 1, (CHOOSE i \in spaces : \A j \in spaces : i <= j) - 1)

\* the participants a diagram declares, in the order of their declarations
ParticipantNames(lines) ==
    LET declared == LinesWith(lines, "participant ")
    IN  [i \in 1..Len(declared) |-> ParticipantName(declared[i])]

\* the names of the contract declarations of a source unit, and of a document
DeclaredIn(source_unit) ==
    {StrOr(Get(n, "name"), "Unknown") :
        n \in {x \in Range(ArrOr(Get(source_unit, "nodes"))) :
                 NodeTypeIs(x, "ContractDefinition")}}
DeclaredContracts(document) ==
    UNION {DeclaredIn(u) : u \in Range(SourceUnits(document))}

\* every declaration array of the document is there: `nodes` of a flat
\* document, and `nodes` of the AST of every entry of an object `sources`
NodesPresent(document) ==
    IF ~Has(document, "sources") THEN IsArr(Get(document, "nodes"))
    ELSE /\ IsObj(Get(document, "sources"))
         /\ \A path \in DOMAIN Get(document, "sources").o :
               IsArr(Get(Get(Get(document, "sources").o[path], "AST"), "nodes"))

\* {"nodes": []}
EmptyDoc == FlatDoc(<<>>)

SectionTitles ==
    {"User Interactions", "Contract-to-Contract Interactions",
     "Event Definitions", "Contract Relationships"}

-----------------------------------------------------------------------------
(* C1 .. C10                                                               *)

\* C1: generate_sequence_diagram is deterministic: a run on a flat document
\* returns the text the previous run on the same document with the same
\* palette flag returned, also when the document declares two or more
\* contracts.
C1_Deterministic ==
    (/\ pc = "write"
     /\ ~Has(ast, "sources")
     /\ ret.called /\ ret.ok /\ ret.light = light_colors)
    => join(diagram, "\n") = ret.text

\* C2: a structural error aborts with no partial result: when the flat
\* document has no `nodes` array, or `sources` is no object, or an entry of
\* `sources` lacks its nested declaration array, every call returns an error
\* and no text, and no output file is ever written.
C2_StructuralErrorAborts ==
    ~NodesPresent(ast) =>
        /\ pc # "write"
        /\ ret.called => (~ret.ok /\ ret.text = "")
        /\ ~outFile.written

\* C3: data-quality gaps never abort: when every declaration array is there,
\* the call never fails, whatever is missing or of the wrong JSON type inside
\* the declarations, and returns a diagram; a contract without a name is
\* declared under the placeholder "Unknown".
C3_GapsNeverAbort ==
    NodesPresent(ast) =>
        /\ pc # "failed"
        /\ ret.called => (ret.ok /\ ret.text # "" /\ ret.lines[Len(ret.lines)] = Fence)
        /\ (pc = "write" /\ Gaps \in Range(ArrOr(Get(ast, "nodes"))))
              => LinesWith(diagram, "participant Unknown as ") # <<>>

\* a call on a document with a nameless, gap-ridden contract has returned Ok
C3_Witness ==
    /\ ret.called /\ ret.ok
    /\ Gaps \in Range(ArrOr(Get(ast, "nodes")))
    /\ LinesWith(ret.lines, "participant Unknown as ") # <<>>

\* C4: the order of the participant declarations depends on the set of the
\* declared contracts only, not on the order of their declarations: the
\* declared participants are the contracts of the document and the default
\* participants, each once, "User" first, "Events" last, and the others
\* between them in ascending lexicographic (byte) order.
C4_ParticipantOrder ==
    pc = "write" =>
        LET names == ParticipantNames(diagram)
            n == Len(names)
        IN  /\ Range(names) = DeclaredContracts(ast)
                 \cup (IF SourceUnits(ast) # <<>> THEN {"User", "Events", "TokenContract"}
                       ELSE {})
            /\ \A i \in 1..n : names[i] = "User" => i = 1
            /\ \A i \in 1..n : names[i] = "Events" => i = n
            /\ \A i \in 1..n : \A j \in 1..n :
                  (i < j /\ names[i] # "User" /\ names[j] # "Events")
                     => StrLess(names[i], names[j])

\* a diagram of two contracts declared in descending order of their names
C4_Witness ==
    /\ pc = "write"
    /\ ast = FlatDoc(<<Vault, Bank>>)
    /\ ParticipantNames(diagram) = <<"User", "Bank", "TokenContract", "Vault", "Events">>

\* C5: the type resolver is total and never returns the empty string, also
\* for nested type nodes and for nodes whose name or typeString is present
\* but empty.
C5_TypeNameNonEmpty ==
    tpc = "done" => typeOut # ""

\* C6: declarations strictly first, for both input shapes: once the second
\* pass has processed a function, every contract declared anywhere in the
\* document is a participant and has its ContractInfo.
C6_DeclarationsFirst ==
    (\E c \in DOMAIN data.contracts : data.contracts[c].functions # <<>>)
    => /\ DeclaredContracts(ast) \subseteq data.participants
       /\ DeclaredContracts(ast) \subseteq DOMAIN data.contracts

\* C7 as stated: the diagram of a document with an empty declaration array
\* declares no participant and has no section-title block.
C7_NoParticipantsNoSections ==
    (ret.called /\ ast = EmptyDoc) =>
        /\ ret.ok
        /\ LinesWith(ret.lines, "participant ") = <<>>
        /\ \A title \in SectionTitles :
              LinesWith(ret.lines, "Note over User: " \o title) = <<>>

\* C7, amended: the diagram of a flat document with an empty declaration
\* array is the preamble, the theme block, the declarations of the three
\* default participants (User, TokenContract, Events), the "User
\* Interactions" section title with no interaction under it, and the legend;
\* no other section title is emitted.
C7_EmptyDocDiagram ==
    (ret.called /\ ast = EmptyDoc) =>
        /\ ret.ok
        /\ ret.lines =
             <<Fence \o "mermaid", "sequenceDiagram",
               "title Smart Contract Interaction Sequence Diagram", "autonumber", "">>
             \o add_theme_config(ret.light)
             \o <<"participant User as \"External User\"",
                  "participant TokenContract as \"ERC20/ERC721 Tokens\"",
                  "participant Events as \"Blockchain Events\"",
                  "",
                  IF ret.light THEN "rect rgb(252, 252, 255)" ELSE "rect rgb(245, 245, 245)",
                  "Note over User: User Interactions",
                  "end",
                  "">>
             \o add_legend(ret.light)
             \o <<Fence>>
        /\ \A title \in SectionTitles \ {"User Interactions"} :
              LinesWith(ret.lines, "Note over User: " \o title) = <<>>

\* the call on the empty document has returned its diagram
C7_Witness ==
    /\ ret.called /\ ret.ok
    /\ ast = EmptyDoc
    /\ Len(LinesWith(ret.lines, "participant ")) = 3

\* C8: the outputs for the two values of the palette flag have the same lines
\* in the same positions, but for the colour lines of the theme block and the
\* colour lines of the section-title blocks.
C8_PaletteChangesColoursOnly ==
    (/\ pc = "write"
     /\ ret.called /\ ret.ok /\ ret.light # light_colors)
    => /\ Len(diagram) = Len(ret.lines)
       /\ \A i \in 1..Len(diagram) :
             diagram[i] # ret.lines[i] =>
                \/ i \in 6..(5 + Len(add_theme_config(light_colors)))
                \/ /\ starts_with(diagram[i], "rect rgb(")
                   /\ i < Len(diagram)
                   /\ \E title \in SectionTitles :
                         diagram[i + 1] = "Note over User: " \o title

\* the documents of the Vault scenario: contract Vault is Ownable, with
\* `address owner`, `event Deposited` and a public `deposit(uint256 amount)`
VaultDocs == {FlatDoc(<<Vault>>), MultiDoc(<<JObj([AST |-> Unit("Vault.sol", <<Vault>>)])>>)}

\* C9: for the Vault scenario, Ownable is no participant and has no
\* participant line, the relationship Vault inherits Ownable is recorded, the
\* user interactions have the call line `User->>+Vault: deposit(amount:
\* uint256)` with the bare return line `Vault-->>-User: return` next after it,
\* and the event section has a note that mentions Deposited.
C9_VaultScenario ==
    /\ (pc = "render" /\ ast \in VaultDocs) =>
          /\ "Ownable" \notin data.participants
          /\ Relationship("Vault", "Ownable", "inherits")
                \in Range(data.contract_relationships)
          /\ \E i \in 1..(Len(data.user_interactions) - 1) :
                /\ data.user_interactions[i] = "User->>+Vault: deposit(amount: uint256)"
                /\ data.user_interactions[i + 1] = "Vault-->>-User: return"
    /\ (pc = "write" /\ ast \in VaultDocs) =>
          /\ LinesWith(diagram, "participant Ownable") = <<>>
          /\ \E i \in 1..(Len(diagram) - 1) :
                /\ diagram[i] = "User->>+Vault: deposit(amount: uint256)"
                /\ diagram[i + 1] = "Vault-->>-User: return"
          /\ \E i \in 1..Len(diagram) : \E j \in 1..Len(diagram) :
                /\ i < j
                /\ diagram[i] = "Note over User: Event Definitions"
                /\ diagram[j] = "Note over Vault,Vault: Event: Deposited"

\* the diagram of the flat Vault document is assembled
C9_Witness ==
    /\ pc = "write"
    /\ ast = FlatDoc(<<Vault>>)
    /\ \E i \in 1..Len(diagram) : diagram[i] = "User->>+Vault: deposit(amount: uint256)"

\* a line without its leading blanks
RECURSIVE Unindent(_)
Unindent(line) ==
    IF starts_with(line, "    ") THEN Unindent(SubSeq(line, 5, Len(line))) ELSE line

\* the lines at the outermost nesting level
Outermost(lines) ==
    LET Outer(l) == ~starts_with(l, "    ")
    IN  SelectSeq(lines, Outer)

\* how many lines, at any nesting level, start with prefix
CountLines(lines, prefix) ==
    Cardinality({i \in 1..Len(lines) : starts_with(Unindent(lines[i]), prefix)})

\* C10: a conditional statement yields one `alt <description>` line, then the
\* indented lines of its true branch, then, if and only if its falseBody is
\* there (an object), one `else` line and the indented lines of the false
\* branch, then one `end` line.  Every block that is opened, at any nesting
\* level, is closed once.  `if (x == 5) { transfer(to, amount); }` yields
\* `alt if x == 5` and `end` and nothing else.
C10_AltElseEnd ==
    bpc = "done" =>
        /\ CountLines(bodyOut, "alt ") + CountLines(bodyOut, "loop ")
              = CountLines(bodyOut, "end")
        /\ CountLines(bodyOut, "else") <= CountLines(bodyOut, "alt ")
        /\ (bodyStmts = <<ExampleIf>>) => bodyOut = <<"alt if x == 5", "end">>
        /\ (Len(bodyStmts) = 1 /\ NodeTypeIs(bodyStmts[1], "IfStatement")) =>
              LET statement == bodyStmts[1]
                  n == Len(bodyOut)
                  true_lines == nested_lines("Vault", "run", Get(statement, "trueBody"))
                  false_lines == nested_lines("Vault", "run", Get(statement, "falseBody"))
                  t == Len(true_lines)
              IN  /\ n >= 2
                  /\ starts_with(bodyOut[1], "alt ")
                  /\ bodyOut[n] = "end"
                  /\ IF IsObj(Get(statement, "falseBody"))
                     THEN /\ Outermost(bodyOut) = <<bodyOut[1], "else", "end">>
                          /\ n = t + Len(false_lines) + 3
                          /\ SubSeq(bodyOut, 2, t + 1) = true_lines
                          /\ bodyOut[t + 2] = "else"
                          /\ SubSeq(bodyOut, t + 3, n - 1) = false_lines
                     ELSE /\ Outermost(bodyOut) = <<bodyOut[1], "end">>
                          /\ SubSeq(bodyOut, 2, n - 1) = true_lines

\* a conditional with both branches, each with a statement that has lines, has
\* been walked
C10_Witness ==
    /\ bpc = "done"
    /\ bodyStmts = <<IfElse(XEquals5, Block(<<EmitDeposited>>), Block(<<TokenTransfer>>))>>
    /\ Outermost(bodyOut) = <<"alt if x == 5", "else", "end">>
    /\ Len(bodyOut) > 4

\* C11: the deduplication of the "calls" relationships is first-occurrence-
\* wins and idempotent: the "Interacts with" notes are the notes of
\* relationships tagged "calls" with both ends participants, no two of the
\* same (source, target) pair, each the first of its pair in the list, in
\* the order of the list; the deduplication of the relationships it keeps
\* keeps them all; and there are no more notes than distinct pairs.
C11_CallsDedup ==
    (fpc = "done" /\ DOMAIN fnIn = {"relationships", "participants"}) =>
        LET rels == fnIn.relationships
            parts == fnIn.participants
            kept == emitted_relationships(rels, parts, {})
            Qualifies(r) == /\ r.relation_type = "calls"
                            /\ r.source \in parts /\ r.target \in parts
            SamePair(r, q) == r.source = q.source /\ r.target = q.target
            First(r) == CHOOSE k \in 1..Len(rels) :
                           /\ Qualifies(rels[k]) /\ SamePair(rels[k], r)
                           /\ \A j \in 1..(k - 1) :
                                 ~(Qualifies(rels[j]) /\ SamePair(rels[j], r))
        IN  /\ fnOut = [i \in 1..Len(kept) |->
                          "Note right of " \o kept[i].source
                              \o ": Interacts with " \o kept[i].target]
            /\ \A i \in 1..Len(kept) : Qualifies(kept[i]) /\ kept[i] = rels[First(kept[i])]
            /\ \A i \in 1..Len(kept) : \A j \in 1..Len(kept) :
                  i < j => (~SamePair(kept[i], kept[j]) /\ First(kept[i]) < First(kept[j]))
            /\ calls_lines(kept, parts, {}) = fnOut
            /\ emitted_relationships(kept, parts, {}) = kept
            /\ Len(fnOut) <= Cardinality({<<r.source, r.target>> : r \in Range(rels)})

\* a list with a repeated pair, a pair in the other direction and a
\* relationship of another tag has been deduplicated to two notes
C11_Witness ==
    /\ fpc = "done"
    /\ DOMAIN fnIn = {"relationships", "participants"}
    /\ fnIn.relationships = <<Relationship("A", "B", "calls"),
                              Relationship("B", "A", "calls"),
                              Relationship("A", "B", "calls")>>
    /\ fnOut = <<"Note right of A: Interacts with B", "Note right of B: Interacts with A">>

\* the concatenation of a sequence of sequences
RECURSIVE Flatten(_)
Flatten(seqs) == IF seqs = <<>> THEN <<>> ELSE Head(seqs) \o Flatten(Tail(seqs))

\* the contract declarations of a source unit, and the function definitions
\* with a string name of a contract declaration, in declaration order
ContractNodes(source_unit) ==
    LET IsContract(n) == NodeTypeIs(n, "ContractDefinition")
    IN  SelectSeq(ArrOr(Get(source_unit, "nodes")), IsContract)
FunctionNodes(contract) ==
    LET IsFunction(n) == NodeTypeIs(n, "FunctionDefinition") /\ IsStr(Get(n, "name"))
    IN  SelectSeq(ArrOr(Get(contract, "nodes")), IsFunction)
ContractNameOf(contract) == StrOr(Get(contract, "name"), "Unknown")
FunctionNameOf(function) ==
    IF Get(function, "name").s = "" /\ StrOr(Get(function, "kind"), "") = "constructor"
    THEN "constructor" ELSE Get(function, "name").s

\* what one function is to add to userInteractions
UserLinesOf(contract, function) ==
    LET c == ContractNameOf(contract)
        f == FunctionNameOf(function)
        purpose == get_function_purpose(f)
    IN  IF StrOr(Get(function, "visibility"), "") \in {"public", "external"}
        THEN (IF purpose.some THEN <<"Note over User," \o c \o ": " \o purpose.v>>
              ELSE <<>>)
             \o <<"User->>+" \o c \o ": " \o call_message(f, function),
                  return_line(c, function)>>
        ELSE <<>>

\* call lines and return lines alternate, from a call to a return
CallsAndReturnsAlternate(lines) ==
    LET NoNote(l) == ~starts_with(l, "Note over User,")
        moves == SelectSeq(lines, NoNote)
    IN  /\ Len(moves) % 2 = 0
        /\ \A i \in 1..Len(moves) :
              IF i % 2 = 1 THEN starts_with(moves[i], "User->>+")
              ELSE contains(moves[i], "-->>-User: return")
                   /\ ~starts_with(moves[i], "User->>+")

\* C12: the second pass over a source unit appends to userInteractions, for
\* each function with a string name in declaration order, nothing if it is
\* neither public nor external and else its purpose note, if it has one, one
\* call line `User->>+<contract>: <signature>` and one return line
\* `<contract>-->>-User: ...`, in this order; so the call and return lines
\* alternate, from a call to a return; and it appends every such function,
\* of any visibility, to the function list of its contract.
C12_UserInteractions ==
    [][pc = "process" =>
         LET unit == SourceUnits(ast)[cursor]
             contracts == ContractNodes(unit)
             added == Flatten([i \in 1..Len(contracts) |->
                         Flatten([j \in 1..Len(FunctionNodes(contracts[i])) |->
                             UserLinesOf(contracts[i], FunctionNodes(contracts[i])[j])])])
         IN  /\ data'.user_interactions = data.user_interactions \o added
             /\ CallsAndReturnsAlternate(data'.user_interactions)
             /\ \A c \in DeclaredIn(unit) :
                   data'.contracts[c].functions =
                      data.contracts[c].functions
                      \o Flatten([i \in 1..Len(contracts) |->
                            IF ContractNameOf(contracts[i]) = c
                            THEN [j \in 1..Len(FunctionNodes(contracts[i])) |->
                                    FunctionNameOf(FunctionNodes(contracts[i])[j])]
                            ELSE <<>>])
    ]_vars

\* the second pass is over for Bank: an external view function with a return
\* type, a public function without, and an internal one that adds no line
C12_Witness ==
    /\ pc = "render"
    /\ ast = FlatDoc(<<Bank>>)
    /\ data.contracts["Bank"].functions = <<"withdraw", "sweep", "helper">>
    /\ Len(LinesWith(data.user_interactions, "User->>+Bank: ")) = 2

\* C13: the return line of a public or external function is chosen by
\* priority: with a non-empty list of return parameters it is
\* `<contract>-->>-User: return <types>`, the types as `name: type` pairs when
\* every return parameter has a name and bare else; without, it is
\* `<contract>-->>-User: return (view function)` for a view or pure function,
\* and the bare `<contract>-->>-User: return` for any other.
C13_ReturnLine ==
    (/\ fpc = "done"
     /\ IsStr(Get(fnIn, "name"))
     /\ StrOr(Get(fnIn, "visibility"), "") \in {"public", "external"})
    => LET lines == fnOut.user_interactions
           returned == ArrOr(Get(Get(fnIn, "returnParameters"), "parameters"))
           Named(p) == StrOr(Get(p, "name"), "") # ""
           types == [i \in 1..Len(returned) |->
                       IF \A k \in 1..Len(returned) : Named(returned[k])
                       THEN Get(returned[i], "name").s \o ": " \o param_type_of(returned[i])
                       ELSE param_type_of(returned[i])]
       IN  /\ lines # <<>>
           /\ lines[Len(lines)] =
                 IF returned # <<>>
                 THEN "Vault-->>-User: return " \o join(types, ", ")
                 ELSE IF StrOr(Get(fnIn, "stateMutability"), "") \in {"view", "pure"}
                 THEN "Vault-->>-User: return (view function)"
                 ELSE "Vault-->>-User: return"

\* a view function with a named and an unnamed return parameter has got its
\* return line, with the types only
C13_Witness ==
    /\ fpc = "done"
    /\ StrOr(Get(fnIn, "stateMutability"), "") = "view"
    /\ fnOut.user_interactions # <<>>
    /\ fnOut.user_interactions[Len(fnOut.user_interactions)]
          = "Vault-->>-User: return bool, uint256"

\* C14: a call statement `<target>.transferFrom(...)` or
\* `<target>.transfer(...)` on an identifier whose name contains "token", in
\* any letter case, is rendered as a call of TokenContract and its return,
\* and not as a call of the target by its name.
C14_TokenRouting ==
    (/\ bpc = "done"
     /\ Len(bodyStmts) = 1
     /\ NodeTypeIs(bodyStmts[1], "ExpressionStatement")
     /\ NodeTypeIs(Get(bodyStmts[1], "expression"), "FunctionCall")
     /\ NodeTypeIs(Get(Get(bodyStmts[1], "expression"), "expression"), "MemberAccess"))
    => LET access == Get(Get(bodyStmts[1], "expression"), "expression")
           member == StrOr(Get(access, "memberName"), "")
           target == Get(access, "expression")
           n == Len(bodyOut)
       IN  (/\ member \in {"transferFrom", "transfer"}
            /\ NodeTypeIs(target, "Identifier")
            /\ IsStr(Get(target, "name"))
            /\ contains(to_lowercase(Get(target, "name").s), "token"))
           => /\ n >= 2
              /\ starts_with(bodyOut[n - 1], "Vault->>+TokenContract: " \o member \o "(")
              /\ bodyOut[n] = "TokenContract-->>-Vault: return (success)"
              /\ LinesWith(bodyOut, "Vault->>+" \o Get(target, "name").s \o ": ") = <<>>

\* C15: the contract-interactions section shows, for every stored entry with
\* a non-empty line list, in insertion order, the note `Note right of
\* <contract>: Processing <function>`, the stored lines and one blank line,
\* whatever characters the names of the contract and of the function hold.
\* (An entry is stored under the key of the first function with this key and
\* holds the lines of the last.)
C15_InteractionSection ==
    fpc = "done" =>
        LET Key(i) == function_key(fnIn[i][1], fnIn[i][2])
            firsts == {i \in 1..Len(fnIn) : \A j \in 1..(i - 1) : Key(j) # Key(i)}
            Last(i) == CHOOSE k \in 1..Len(fnIn) :
                          Key(k) = Key(i) /\ \A j \in (k + 1)..Len(fnIn) : Key(j) # Key(i)
            order == SortSetInt(firsts)
        IN  fnOut = Flatten([n \in 1..Len(order) |->
                       LET f == fnIn[Last(order[n])]
                       IN  IF f[3] = <<>> THEN <<>>
                           ELSE <<"Note right of " \o f[1] \o ": Processing " \o f[2]>>
                                \o f[3] \o <<"">>])

\* the number of blanks a line starts with
RECURSIVE LeadingBlanks(_)
LeadingBlanks(line) ==
    IF line # "" /\ Char(line, 1) = " "
    THEN 1 + LeadingBlanks(SubSeq(line, 2, Len(line)))
    ELSE 0

\* what a line is within the block structure
LineKind(line) ==
    LET text == SubSeq(line, LeadingBlanks(line) + 1, Len(line))
    IN  IF starts_with(text, "loop ") THEN "loop"
        ELSE IF starts_with(text, "alt ") THEN "alt"
        ELSE IF text = "else" THEN "else"
        ELSE IF text = "end" THEN "end"
        ELSE "line"

\* C16: the lines of the body walker are block-balanced and indented by
\* nesting depth: every line starts with a multiple of four blanks; every
\* `loop` or `alt` line is closed by one `end` line at its indentation, with
\* only deeper lines between them, but for at most one `else` at the
\* indentation of an `alt`; every `end` closes one opener and every `else`
\* lies in one `alt` block at its indentation; and a line has four blanks
\* for each block it lies in.
C16_BalancedAndIndented ==
    bpc = "done" =>
        LET n == Len(bodyOut)
            blanks == [i \in 1..n |-> LeadingBlanks(bodyOut[i])]
            kind == [i \in 1..n |-> LineKind(bodyOut[i])]
            openers == {i \in 1..n : kind[i] \in {"loop", "alt"}}
            Closers(i) == {j \in (i + 1)..n : kind[j] = "end" /\ blanks[j] = blanks[i]}
            Close(i) == CHOOSE j \in Closers(i) : \A k \in Closers(i) : j <= k
            Inside(m) == {i \in openers : i < m /\ Closers(i) # {} /\ m < Close(i)}
        IN  /\ \A i \in 1..n : blanks[i] % 4 = 0
            /\ \A i \in openers :
                  /\ Closers(i) # {}
                  /\ \A m \in (i + 1)..(Close(i) - 1) :
                        \/ blanks[m] > blanks[i]
                        \/ kind[i] = "alt" /\ kind[m] = "else" /\ blanks[m] = blanks[i]
                  /\ Cardinality({m \in (i + 1)..(Close(i) - 1) :
                                     kind[m] = "else" /\ blanks[m] = blanks[i]}) <= 1
            /\ \A j \in 1..n : kind[j] = "end" =>
                  Cardinality({i \in openers : Closers(i) # {} /\ Close(i) = j}) = 1
            /\ \A m \in 1..n : kind[m] = "else" =>
                  \E i \in Inside(m) : kind[i] = "alt" /\ blanks[i] = blanks[m]
            /\ \A m \in 1..n :
                  blanks[m] = 4 * (Cardinality(Inside(m))
                                   - (IF kind[m] = "else" THEN 1 ELSE 0))

\* a statement two blocks deep has been walked: its lines start with eight
\* blanks
C16_Witness ==
    /\ bpc = "done"
    /\ \E i \in 1..Len(bodyOut) :
          LeadingBlanks(bodyOut[i]) = 8 /\ LineKind(bodyOut[i]) = "line"
    /\ \E i \in 1..Len(bodyOut) : LineKind(bodyOut[i]) = "else"

\* a statement of a kind the body walker has no case for
Unrecognized(statement) ==
    StrOr(Get(statement, "nodeType"), "")
        \notin {"ForStatement", "IfStatement", "EmitStatement",
                "ExpressionStatement", "VariableDeclarationStatement"}

\* C17: a statement of unrecognized kind adds no line and does not end the
\* traversal: the lines of a statement list are the lines of its statements,
\* one after the other, those of an unrecognized statement being none, so
\* that the list without its unrecognized statements has the same lines.
C17_UnrecognizedSkipped ==
    bpc = "done" =>
        LET Known(statement) == ~Unrecognized(statement)
        IN  /\ bodyOut = Flatten([i \in 1..Len(bodyStmts) |->
                            process_function_body("Vault", "run", <<bodyStmts[i]>>)])
            /\ \A i \in 1..Len(bodyStmts) :
                  Unrecognized(bodyStmts[i]) =>
                     process_function_body("Vault", "run", <<bodyStmts[i]>>) = <<>>
            /\ bodyOut = process_function_body("Vault", "run", SelectSeq(bodyStmts, Known))

\* a list with unrecognized statements before and between recognized ones has
\* been walked, and has the lines of both recognized ones
C17_Witness ==
    /\ bpc = "done"
    /\ bodyStmts = <<Return, EmitDeposited, JNull>>
    /\ bodyOut # <<>>

\* ---------------------------------------------------------------------
\* get_function_purpose on its own: function names that hold no keyword,
\* one keyword, or several keywords of the table, in several letter cases
NameStems ==
    {"transfer", "unstake", "airdropToAddresses", "airdropToKeyIds",
     "predictAddress", "constructor", "mintAndBurn", "TRANSFER", "Vote",
     "get", "run", "x"}

NamePrefixes == {"", "pre", "Un", "safe"}

NameSuffixes == {"", "All", "Stake"}

PurposeNames ==
    {p \o n \o q : p \in NamePrefixes, n \in NameStems, q \in NameSuffixes}
    \cup {common_functions[i][1] : i \in 1..Len(common_functions)}

InitPurpose ==
    /\ Unused
    /\ fnIn \in {[function_name |-> n] : n \in PurposeNames}
    /\ fnOut = <<>>
    /\ fpc = "purpose"

\* the lookup, and the two places that turn its result into a note: the
\* body walker's external call and pass 2's public function
LookUpPurpose ==
    /\ fpc = "purpose"
    /\ fnOut' =
         [purpose |-> get_function_purpose(fnIn.function_name),
          note    |-> purpose_note("Vault", fnIn.function_name),
          user    |-> process_function("Vault",
                         JObj(("name" :> JStr(fnIn.function_name))
                              @@ ("visibility" :> JStr("public"))),
                         VaultCollected).user_interactions]
    /\ fpc' = "done"
    /\ UNCHANGED <<fnIn, pipeVars, typeVars, bodyVars>>

NextPurpose == LookUpPurpose

SpecPurpose == InitPurpose /\ [][NextPurpose]_vars

\* entry i of the table matches the name: its lowercased keyword is a
\* substring of the lowercased name
KeywordMatches(i, name) ==
    contains(to_lowercase(name), to_lowercase(common_functions[i][1]))

\* C18: the purpose of a function name is the description of the first entry
\* of the table, in table order, whose lowercased keyword is a substring of
\* the lowercased name, and none when no entry matches; with none, no purpose
\* note is emitted, neither by the body walker nor among the user
\* interactions.
C18_PurposeLookup ==
    fpc = "done" /\ "purpose" \in DOMAIN fnOut =>
        LET name == fnIn.function_name
            table == 1..Len(common_functions)
        IN  /\ (\A i \in table : ~KeywordMatches(i, name)) <=> ~fnOut.purpose.some
            /\ \A i \in table :
                  KeywordMatches(i, name) /\ (\A j \in 1..(i - 1) : ~KeywordMatches(j, name))
                     => fnOut.purpose = Some(common_functions[i][2])
            /\ ~fnOut.purpose.some =>
                  /\ fnOut.note = <<>>
                  /\ LinesWith(fnOut.user, "Note") = <<>>
            /\ fnOut.purpose.some =>
                  /\ fnOut.note = <<"Note right of Vault: " \o fnOut.purpose.v>>
                  /\ LinesWith(fnOut.user, "Note")
                        = <<"Note over User,Vault: " \o fnOut.purpose.v>>

\* a name that holds two keywords of the table ("stake" before "unstake") has
\* been looked up and has the description of the earlier one
C18_Witness ==
    /\ fpc = "done"
    /\ "purpose" \in DOMAIN fnOut
    /\ fnIn.function_name = "unstake"
    /\ fnOut.purpose = Some("Stake tokens")
    /\ fnOut.note # <<>>

\* a name that holds no keyword has been looked up
C18_WitnessNone ==
    /\ fpc = "done"
    /\ "purpose" \in DOMAIN fnOut
    /\ fnIn.function_name = "preget"
    /\ ~fnOut.purpose.some

\* ---------------------------------------------------------------------
\* guess_type_from_name on its own: identifiers that meet each rule, in the
\* letter cases Solidity code writes them in
GuessStems ==
    {"isOpen", "IsOpen", "ISOPEN", "hasRole", "HasRole",
     "ownerAddr", "owneraddr", "OWNER_ADDR", "recipientAddress",
     "tokenAmount", "TOKEN_AMOUNT", "newValue", "balanceOf",
     "userId", "USER_ID", "apiKey", "to", "count"}

GuessPrefixes == {"", "_"}

GuessSuffixes == {"", "_", "Key", "Id"}

GuessNames ==
    {p \o n \o q : p \in GuessPrefixes, n \in GuessStems, q \in GuessSuffixes}

InitGuess ==
    /\ Unused
    /\ fnIn \in {[name |-> n] : n \in GuessNames}
    /\ fnOut = <<>>
    /\ fpc = "guess"

GuessType ==
    /\ fpc = "guess"
    /\ fnOut' = [guessed |-> guess_type_from_name(fnIn.name)]
    /\ fpc' = "done"
    /\ UNCHANGED <<fnIn, pipeVars, typeVars, bodyVars>>

NextGuess == GuessType

SpecGuess == InitGuess /\ [][NextGuess]_vars

\* the rules of the type guess applied to the name without regard to case
CaseInsensitiveGuess(name) ==
    LET lowered == to_lowercase(name)
    IN  IF starts_with(lowered, "is") \/ starts_with(lowered, "has") THEN "bool"
        ELSE IF contains(lowered, "amount") \/ contains(lowered, "value")
                \/ contains(lowered, "balance") THEN "uint256"
        ELSE IF contains(lowered, "address") \/ ends_with(lowered, "addr") THEN "address"
        ELSE IF contains(lowered, "id") THEN "bytes32"
        ELSE IF contains(lowered, "key") THEN "bytes"
        ELSE "any"

\* C19: the type guessed from a name is that of the first rule the name meets
\* without regard to letter case (prefix is/has: bool; amount, value or
\* balance: uint256; address, or suffix Addr: address; id: bytes32; key:
\* bytes; otherwise any), so that two names that differ in letter case only
\* have the same guessed type.
C19_CaseInsensitiveGuess ==
    fpc = "done" /\ "guessed" \in DOMAIN fnOut =>
        /\ fnOut.guessed = CaseInsensitiveGuess(fnIn.name)
        /\ \A other \in GuessNames :
              to_lowercase(other) = to_lowercase(fnIn.name)
                 => guess_type_from_name(other) = fnOut.guessed

\* ---------------------------------------------------------------------
\* generate_diagram_from_sources: the ASTs of the source files merged one
\* after the other into a document that starts empty
MaxMerged == 2

SmallA == Contract("A", "contract", <<>>, <<>>)

SmallB == Contract("B", "contract", <<>>, <<>>)

\* an entry of `sources` as solc's combined JSON holds it
SourceEntry(path, decls) == JObj([AST |-> Unit(path, decls)])

\* what solc prints for a file: for A.sol, for B.sol, for a B.sol that imports
\* A.sol (both units are in its output), flat source units, and documents
\* whose members have other types than those of the others
SolcOutputs ==
    { JObj([sourceList |-> JArr(<<JStr("A.sol")>>),
            sources |-> JObj([A |-> SourceEntry("A.sol", <<SmallA>>)]),
            version |-> JStr("0.8.20")]),
      JObj([sourceList |-> JArr(<<JStr("B.sol")>>),
            sources |-> JObj([B |-> SourceEntry("B.sol", <<SmallB>>)]),
            version |-> JStr("0.8.20")]),
      JObj([sourceList |-> JArr(<<JStr("A.sol"), JStr("B.sol")>>),
            sources |-> JObj([A |-> SourceEntry("A.sol", <<SmallA>>),
                              B |-> SourceEntry("B.sol", <<Pragma, SmallB>>)]),
            version |-> JStr("0.8.20")]),
      FlatDoc(<<SmallA>>),
      FlatDoc(<<Pragma, SmallB>>),
      EmptyObj,
      JObj([sources |-> JObj([A |-> EmptyObj])]),
      JObj([sources |-> JObj([A |-> JObj([AST |-> JNull])])]),
      JObj([sourceList |-> JStr("A.sol"), sources |-> JArr(<<>>),
            version |-> JStr("0.8.21")]),
      JObj([contracts |-> JObj([A |-> JObj([abi |-> JArr(<<JStr("f")>>)])]),
            sources |-> JObj([A |-> JObj([id |-> JNum(0)])])]),
      JObj([contracts |-> JObj([A |-> JObj([abi |-> JArr(<<JStr("g")>>)])]),
            nodes |-> JNull]) }

\* fnOut is combined_ast; fnIn holds the ASTs merged so far and the
\* combined_ast the last of them was merged into
InitMerge ==
    /\ Unused
    /\ fnIn = [sources |-> <<>>, target |-> EmptyObj]
    /\ fnOut = EmptyObj
    /\ fpc = "merge"

MergeFile ==
    /\ fpc = "merge"
    /\ Len(fnIn.sources) < MaxMerged
    /\ \E file_ast \in SolcOutputs :
          /\ fnIn' = [sources |-> Append(fnIn.sources, file_ast), target |-> fnOut]
          /\ fnOut' = merge_ast_json(fnOut, file_ast)
    /\ UNCHANGED <<fpc, pipeVars, typeVars, bodyVars>>

NextMerge == MergeFile

SpecMerge == InitMerge /\ [][NextMerge]_vars

\* the merge at every nesting depth: objects merged key by key, arrays
\* concatenated, every other pair settled for the source
RECURSIVE DeepMerge(_, _)
DeepMerge(target, source) ==
    IF IsObj(target) /\ IsObj(source)
    THEN JObj([key \in DOMAIN target.o \cup DOMAIN source.o |->
                 IF key \notin DOMAIN source.o THEN target.o[key]
                 ELSE IF key \notin DOMAIN target.o THEN source.o[key]
                 ELSE DeepMerge(target.o[key], source.o[key])])
    ELSE IF IsArr(target) /\ IsArr(source) THEN JArr(target.a \o source.a)
    ELSE source

\* C20: merging a source document into a target document is a deep merge at
\* every nesting depth: arrays under the same path are concatenated, target's
\* first, objects under the same path are merged recursively, any other pair
\* of values is settled for the source's, and the keys of the target alone
\* keep their values.
C20_DeepMerge ==
    fpc = "merge" /\ fnIn.sources # <<>> =>
        fnOut = DeepMerge(fnIn.target, fnIn.sources[Len(fnIn.sources)])

\* ---------------------------------------------------------------------
\* the contract declarations of a document, in the order of its source units
AllContractNodes(document) ==
    Flatten([i \in 1..Len(SourceUnits(document)) |->
               ContractNodes(SourceUnits(document)[i])])

\* the (name, resolved type) pairs of the state-variable declarations of a
\* contract declaration, in order
StateVariablesOf(contract) ==
    LET IsVariable(member) == NodeTypeIs(member, "VariableDeclaration")
        declared == SelectSeq(ArrOr(Get(contract, "nodes")), IsVariable)
    IN  [i \in 1..Len(declared) |->
           <<StrOr(Get(declared[i], "name"), "unknown"),
             extract_type_name(Get(declared[i], "typeName"))>>]

\* C21: at the end of extraction every contract declared once has the (name,
\* type) pairs of its state variables, in order, and a "references"
\* relationship C -> T is recorded exactly for the state variables of C whose
\* resolved type T is a contract declared anywhere in the input, before or
\* after C, or holds "address" in its lowercase form.
C21_ReferencesRecorded ==
    pc = "render" =>
        LET declared == AllContractNodes(ast)
        IN  \A i \in 1..Len(declared) :
              LET c == ContractNameOf(declared[i])
                  variables == StateVariablesOf(declared[i])
              IN  /\ (\A j \in 1..Len(declared) : ContractNameOf(declared[j]) = c => j = i)
                        => data.contracts[c].variables = variables
                  /\ \A k \in 1..Len(variables) :
                        LET type == variables[k][2]
                        IN  (Relationship(c, type, "references")
                                \in Range(data.contract_relationships))
                            <=> (type \in DeclaredContracts(ast)
                                 \/ contains(to_lowercase(type), "address"))

\* ---------------------------------------------------------------------
\* the text of an array's length: the literal's value when it is a string or
\* an unsigned number, none otherwise
LengthText(type_node) ==
    LET value == Get(Get(type_node, "length"), "value")
    IN  IF Has(type_node, "length") /\ IsStr(value) THEN Some(value.s)
        ELSE IF Has(type_node, "length") /\ IsU64(value) THEN Some(NumStr(value.n))
        ELSE None

\* C22: the resolver formats composite type nodes recursively: an array is
\* its resolved base type followed by [N] when a string or number literal
\* length is present and by [] otherwise; a mapping is mapping(K=>V) over its
\* resolved key and value types; a tuple is its resolved component types
\* joined by ", " in parentheses, or "tuple" without a component array; a
\* user-defined type is its qualified-path name if present, else its plain
\* name, else "unknown".
C22_RecursiveFormatting ==
    tpc = "done" /\ IsObj(typeNode) =>
        LET kind == StrOr(Get(typeNode, "nodeType"), "")
            Sub(key) == extract_type_name(Get(typeNode, key))
            components == Get(typeNode, "components")
            path_name == Get(Get(typeNode, "pathNode"), "name")
            plain_name == Get(typeNode, "name")
        IN  /\ kind = "ArrayTypeName" =>
                  typeOut = Sub("baseType")
                               \o (IF LengthText(typeNode).some
                                   THEN "[" \o LengthText(typeNode).v \o "]"
                                   ELSE "[]")
            /\ kind = "Mapping" =>
                  typeOut = "mapping(" \o Sub("keyType") \o "=>" \o Sub("valueType") \o ")"
            /\ kind = "TupleType" /\ IsArr(components) =>
                  typeOut = "(" \o join([i \in 1..Len(components.a) |->
                                           extract_type_name(components.a[i])], ", ")
                                \o ")"
            /\ kind = "TupleType" /\ ~IsArr(components) => typeOut = "tuple"
            /\ kind = "UserDefinedTypeName" =>
                  typeOut = IF IsStr(path_name) THEN path_name.s
                            ELSE IF IsStr(plain_name) THEN plain_name.s
                            ELSE "unknown"

\* a fixed-size array, with a number-encoded length, of mappings has been
\* resolved
C22_Witness ==
    /\ tpc = "done"
    /\ typeNode = FixedArray(Mapping(Elementary("address"), Elementary("uint256")),
                             JNum(12))
    /\ typeOut = "mapping(address=>uint256)[12]"

\* ---------------------------------------------------------------------
\* the names a variable-declaration statement declares, in order
DeclaredNames(statement) ==
    LET HasName(decl) == IsStr(Get(decl, "name"))
        named == SelectSeq(ArrOr(Get(statement, "declarations")), HasName)
    IN  [i \in 1..Len(named) |-> Get(named[i], "name").s]

\* the initializer of the statement is a member-access call on an identifier
CallsMemberOfIdentifier(statement) ==
    LET init_value == Get(statement, "initialValue")
    IN  /\ NodeTypeIs(init_value, "FunctionCall")
        /\ NodeTypeIs(Get(init_value, "expression"), "MemberAccess")
        /\ NodeTypeIs(Get(Get(init_value, "expression"), "expression"), "Identifier")

\* C23: a variable-declaration statement whose initializer is a member-access
\* call on an identifier gives exactly the call line
\* <contract>->>+<target>: <member>(<args>) and the return line
\* <target>-->>-<contract>: return → <names>, the declared names joined by
\* ", " in order, or "result" without a name; every other
\* variable-declaration statement gives no line.
C23_DeclarationWithCall ==
    bpc = "done" /\ Len(bodyStmts) = 1
        /\ NodeTypeIs(bodyStmts[1], "VariableDeclarationStatement") =>
        LET statement == bodyStmts[1]
            call == Get(Get(statement, "initialValue"), "expression")
            target == StrOr(Get(Get(call, "expression"), "name"), "Unknown")
            member == StrOr(Get(call, "memberName"), "unknown")
            names == DeclaredNames(statement)
        IN  IF CallsMemberOfIdentifier(statement)
            THEN bodyOut =
                   <<"Vault->>+" \o target \o ": " \o member \o "("
                        \o arg_str_of(Get(statement, "initialValue")) \o ")",
                     target \o "-->>-Vault: return → "
                        \o (IF names = <<>> THEN "result" ELSE join(names, ", "))>>
            ELSE bodyOut = <<>>

\* a declaration of two named variables and an unnamed one from a member call
\* has been walked
C23_Witness ==
    /\ bpc = "done"
    /\ bodyStmts = <<ReservesDeclaration>>
    /\ bodyOut = <<"Vault->>+pool: getReserves(tokenId: bytes32, \"1\": uint256)",
                   "pool-->>-Vault: return → a, b">>

\* ---------------------------------------------------------------------
\* the "Interacts with" notes of a diagram
InteractsNotes(lines) ==
    LET Interacts(l) == contains(l, ": Interacts with ")
    IN  SelectSeq(LinesWith(lines, "Note right of "), Interacts)

\* C24: extraction never records a relationship of kind "calls": every
\* relationship recorded is of kind "inherits" or "references", and no
\* diagram rendered or returned holds an "Interacts with" note, whatever the
\* function bodies call.
C24_NoCallsRelationship ==
    /\ \A i \in 1..Len(data.contract_relationships) :
          data.contract_relationships[i].relation_type \in {"inherits", "references"}
    /\ InteractsNotes(diagram) = <<>>
    /\ InteractsNotes(ret.lines) = <<>>

\* a document whose function bodies call other contracts has been extracted,
\* with relationships recorded, and rendered
C24_Witness ==
    /\ pc = "write"
    /\ ast = FlatDoc(<<Vault, Bank>>)
    /\ LinesWith(diagram, "    Bank->>+TokenContract: transferFrom") # <<>>
    /\ LinesWith(diagram, "Note right of Vault: Inherits from: Ownable") # <<>>
    /\ InteractsNotes(diagram) = <<>>

\* ---------------------------------------------------------------------
\* C25: every diagram returned successfully declares the synthetic
\* participants User, Events and TokenContract, for a flat document and for a
\* multi-source document of any number of entries, with or without an AST:
\* the participant set at the end of extraction holds the three names, and
\* the diagram declares them.
C25_DefaultsDeclared ==
    /\ pc = "render" => {"User", "Events", "TokenContract"} \subseteq data.participants
    /\ ret.called /\ ret.ok =>
          {"User", "Events", "TokenContract"} \subseteq Range(ParticipantNames(ret.lines))

\* ---------------------------------------------------------------------
\* the position of the first occurrence of p in s, 0 without one
Find(s, p) ==
    LET at == {i \in 1..(Len(s) - Len(p) + 1) : SubSeq(s, i, i + Len(p) - 1) = p}
    IN  IF at = {} THEN 0 ELSE CHOOSE i \in at : \A j \in at : i <= j

\* the sender and the receiver of a call line `A->>+B: ...` or of a return
\* line `A-->>-B: ...`; no lane for any other line
Lanes(line) ==
    LET l == Unindent(line)
        colon == Find(l, ": ")
        head == IF colon = 0 THEN l ELSE SubSeq(l, 1, colon - 1)
        ret_at == Find(head, "-->>-")
        call_at == Find(head, "->>+")
    IN  IF ret_at > 0
        THEN {SubSeq(head, 1, ret_at - 1), SubSeq(head, ret_at + 5, Len(head))}
        ELSE IF call_at > 0
        THEN {SubSeq(head, 1, call_at - 1), SubSeq(head, call_at + 4, Len(head))}
        ELSE {}

LanesOf(lines) == UNION {Lanes(lines[i]) : i \in 1..Len(lines)}

\* The second pass and the renderer on a public function `run` of the
\* contract Vault, over the statement lists of the body walker: fnIn is the
\* body, fnOut the data after the second pass and the diagram rendered from it
InitLanes ==
    /\ Unused
    /\ fnIn \in {[statements |-> body] : body \in StatementLists(1)}
    /\ fnOut = <<>>
    /\ fpc = "lanes"

ExtractAndRender ==
    /\ fpc = "lanes"
    /\ LET extracted ==
             process_function("Vault",
                Function("run", "public", "nonpayable", <<>>, <<>>,
                         Block(fnIn.statements)),
                VaultCollected)
       IN  \E order \in IterationOrders(DOMAIN extracted.contracts) :
              fnOut' = [extracted |-> extracted,
                        rendered |-> diagram_lines(extracted, FALSE, order)]
    /\ fpc' = "done"
    /\ UNCHANGED <<fnIn, pipeVars, typeVars, bodyVars>>

NextLanes == ExtractAndRender

SpecLanes == InitLanes /\ [][NextLanes]_vars

\* C26: every lane that sends or receives a call or a return line stored in
\* userInteractions or contractInteractions is a participant at the end of
\* extraction, and is declared in the diagram returned; call targets taken
\* from identifier names and the lane Recipient included.
C26_LanesAreParticipants ==
    fpc = "done" /\ "extracted" \in DOMAIN fnOut =>
        /\ LanesOf(fnOut.extracted.user_interactions) \subseteq fnOut.extracted.participants
        /\ \A i \in 1..Len(fnOut.extracted.contract_interactions) :
              LanesOf(fnOut.extracted.contract_interactions[i].lines)
                 \subseteq fnOut.extracted.participants
        /\ LanesOf(fnOut.rendered) \subseteq Range(ParticipantNames(fnOut.rendered))

\* ---------------------------------------------------------------------
\* The second pass over the members of one contract, and the renderer:
\* functions that share or do not share a name, public or not, with bodies of
\* different lines or of none
MaxFunctions == 2

OverloadBodies ==
    {<<>>, <<EmitDeposited>>, <<TokenTransfer>>, <<Return>>}

OverloadCatalog ==
    {Function(name, visibility, "nonpayable", <<>>, <<>>, Block(body)) :
        name \in {"run", "stop"}, visibility \in {"public", "internal"},
        body \in OverloadBodies}

InitMembers ==
    /\ Unused
    /\ fnIn \in {[members |-> m] : m \in SeqsUpTo(OverloadCatalog, MaxFunctions)}
    /\ fnOut = <<>>
    /\ fpc = "members"

ProcessMembers ==
    /\ fpc = "members"
    /\ LET stored == process_members(fnIn.members, "Vault", VaultCollected)
       IN  \E order \in IterationOrders(DOMAIN stored.contracts) :
              fnOut' = [stored |-> stored,
                        shown |-> diagram_lines(stored, FALSE, order)]
    /\ fpc' = "done"
    /\ UNCHANGED <<fnIn, pipeVars, typeVars, bodyVars>>

NextMembers == ProcessMembers

SpecMembers == InitMembers /\ [][NextMembers]_vars

\* the lines follow the note somewhere in the diagram
ShownUnder(lines, note, diagram_text) ==
    \E at \in 1..Len(diagram_text) :
       /\ diagram_text[at] = note
       /\ at + Len(lines) <= Len(diagram_text)
       /\ SubSeq(diagram_text, at + 1, at + Len(lines)) = lines

\* C27: no function body is lost: the lines of every public or external
\* function whose body gives at least one line are stored under its
\* <contract>.<function> key at the end of extraction and are shown under its
\* note in the contract-interaction section, also when functions of the
\* contract share a name.
C27_NoBodyLost ==
    fpc = "done" /\ "stored" \in DOMAIN fnOut =>
        \A i \in 1..Len(fnIn.members) :
           LET function == fnIn.members[i]
               name == Get(function, "name").s
               lines == process_function_body("Vault", name,
                            Get(Get(function, "body"), "statements").a)
           IN  Get(function, "visibility").s \in {"public", "external"} /\ lines # <<>>
                  => /\ \E k \in 1..Len(fnOut.stored.contract_interactions) :
                           fnOut.stored.contract_interactions[k]
                              = [key |-> "Vault." \o name, lines |-> lines]
                     /\ ShownUnder(lines, "Note right of Vault: Processing " \o name,
                                   fnOut.shown)

\* ---------------------------------------------------------------------
\* The first pass over a declaration array: contracts that share or do not
\* share a name, with and without a base and events
MaxDeclarations == 2

DeclarationCatalog ==
    {Contract(name, "contract", bases, events) :
        name \in {"A", "B"},
        bases \in {<<>>, <<Base("Ownable")>>},
        events \in {<<>>, <<Event("Opened")>>, <<Event("Closed"), Event("Opened")>>}}

InitCollect ==
    /\ Unused
    /\ fnIn \in {[nodes |-> n] : n \in SeqsUpTo(DeclarationCatalog, MaxDeclarations)}
    /\ fnOut = <<>>
    /\ fpc = "collect"

CollectDeclarations ==
    /\ fpc = "collect"
    /\ fnOut' = [collected |->
                   collect_contracts_and_variables(FlatDoc(fnIn.nodes), DefaultData)]
    /\ fpc' = "done"
    /\ UNCHANGED <<fnIn, pipeVars, typeVars, bodyVars>>

NextCollect == CollectDeclarations

SpecCollect == InitCollect /\ [][NextCollect]_vars

\* C28: after the first pass over any sequence of declarations, also of
\* declarations that share a name, the global logs agree with the records of
\* the contracts: the event of every (contract, event) pair of `events` is
\* among the events of that contract's record, and the target of every
\* "inherits" relationship is among inherits_from of its source's record.
C28_LogsMatchRecords ==
    fpc = "done" /\ "collected" \in DOMAIN fnOut =>
        LET d == fnOut.collected.data
        IN  /\ fnOut.collected.ok
            /\ \A i \in 1..Len(d.events) :
                  /\ d.events[i][1] \in DOMAIN d.contracts
                  /\ d.events[i][2] \in Range(d.contracts[d.events[i][1]].events)
            /\ \A i \in 1..Len(d.contract_relationships) :
                  LET rel == d.contract_relationships[i]
                  IN  rel.relation_type = "inherits" =>
                         /\ rel.source \in DOMAIN d.contracts
                         /\ rel.target \in Range(d.contracts[rel.source].inherits_from)

\* ---------------------------------------------------------------------
\* C29: every entry of the function-purpose table is reached through its own
\* keyword: the purpose of a name that is the keyword of an entry is the
\* description of that entry.
C29_KeywordReachesEntry ==
    fpc = "done" /\ "purpose" \in DOMAIN fnOut =>
        \A i \in 1..Len(common_functions) :
           fnIn.function_name = common_functions[i][1]
              => fnOut.purpose = Some(common_functions[i][2])

====
